---- MODULE Spec2Model ----
(***************************************************************************)
(* A model of go-licenses' library grouping (licenses.Libraries), library  *)
(* naming (Library.Name / commonAncestor), license URL resolution          *)
(* (Library.LicenseURL) and the loop of the CSV report (csvImp).           *)
(*                                                                         *)
(* Go strings are modelled as sequences of one-character strings so that   *)
(* prefix tests, splitting and byte-wise ordering are computed, not        *)
(* assumed.                                                                *)
(***************************************************************************)
EXTENDS Integers, Sequences, FiniteSets, TLC

VARIABLES
    mode,           \* which entry point this behaviour exercises
    pc,             \* position inside the entry point
    rootPkgs,       \* Libraries: result of packages.Load (sequence of package ids)
    imports,        \* Libraries: the Imports edges of the loaded graph
    stack,          \* Libraries: packages.Visit's pending calls, next call first
    seen,           \* Libraries: packages.Visit's seen set
    found,          \* Libraries: the classifier's answer for each package asked
    pkgsByLicense,  \* Libraries: license path -> packages, in append order
    errorOccurred,  \* Libraries: the errorOccurred flag
    mapOrder,       \* Libraries: order in which range visited pkgsByLicense
    libraries,      \* Libraries: the returned slice
    retErr,         \* the returned error ("nil" when none)
    lib,            \* Name / LicenseURL: the receiver Library
    nameOut,        \* Name: the returned string
    testOnlySkipValidation, \* LicenseURL: the package-level flag
    remote,         \* LicenseURL: the repository info of the module
    relativePath,   \* LicenseURL: the license path relative to the module
    attempt,        \* LicenseURL: the validation attempt under way (1, 2)
    try,            \* LicenseURL: the download of that attempt (1, 2)
    validationError1, \* LicenseURL: the error of the first attempt
    calls,          \* LicenseURL: lookups, file reads and downloads made
    urlOut,         \* LicenseURL: the returned URL
    goModules,      \* csvImp: the modules the loop ranges over
    modIndex,       \* csvImp: the position of the loop in goModules
    repo,           \* csvImp: whether GetGithubRepo gave a repo (not nil)
    pending,        \* csvImp: the license infos of the module still to write
    hasReportedGetGithubRepoErr, \* csvImp: the flag of that name
    errorCount,     \* csvImp: the counter of that name
    licenseCount,   \* csvImp: the counter of that name
    csvErr,         \* csvImp: the named result err
    rows,           \* csvImp: the rows written to the file
    reported,       \* csvImp: the errors logged by report
    written         \* csvImp: the calls of writeLicenseInfo and their results

\* The variables only csvImp uses.
csvVars == <<goModules, modIndex, repo, pending, hasReportedGetGithubRepoErr,
             errorCount, licenseCount, csvErr, rows, reported, written>>

\* The variables only LicenseURL uses, and those Libraries, Name and
\* LicenseURL all leave alone.
urlVars == <<testOnlySkipValidation, remote, relativePath, attempt, try,
             validationError1, calls, urlOut, csvVars>>

vars == <<mode, pc, rootPkgs, imports, stack, seen, found, pkgsByLicense,
          errorOccurred, mapOrder, libraries, retErr, lib, nameOut,
                   urlVars>>

-----------------------------------------------------------------------------
(* Bounds of the model. *)

\* Largest number of root packages packages.Load returns.
MaxRoots == 2

\* Largest number of import edges in the loaded graph.
MaxImports == 2

\* Largest number of import paths in a Library whose Name is computed.
MaxPaths == 2

-----------------------------------------------------------------------------
(* Values shared by the entry points. *)

\* A nil error.
NoError == [kind |-> "nil"]

\* The empty string as a URL.
NoURL == [empty |-> TRUE]

\* A remote that was not looked up.
NoRemote == [known |-> FALSE]

\* The state of the variables of LicenseURL while it is not running.
UrlIdle ==
    /\ testOnlySkipValidation = FALSE
    /\ remote = NoRemote
    /\ relativePath = <<>>
    /\ attempt = 0
    /\ try = 0
    /\ validationError1 = NoError
    /\ calls = <<>>
    /\ urlOut = NoURL

\* The state of the variables of csvImp while it is not running.
CsvIdle ==
    /\ goModules = <<>>
    /\ modIndex = 0
    /\ repo = FALSE
    /\ pending = <<>>
    /\ hasReportedGetGithubRepoErr = FALSE
    /\ errorCount = 0
    /\ licenseCount = 0
    /\ csvErr = NoError
    /\ rows = <<>>
    /\ reported = <<>>
    /\ written = <<>>

-----------------------------------------------------------------------------
(* Strings. *)

\* The characters in use, in byte order (Go compares strings byte-wise).
Alphabet == <<".", "/", "1", "C", "E", "I", "L", "N", "S",
              "a", "b", "c", "d", "e", "f", "g", "m", "n", "o", "p", "q",
              "r", "s", "t", "u", "v", "x", "y">>

Ord(c) == CHOOSE i \in DOMAIN Alphabet : Alphabet[i] = c

Min(a, b) == IF a < b THEN a ELSE b

\* Go's s < t on strings: byte-wise lexicographic order.
RECURSIVE StrLessFrom(_, _, _)
StrLessFrom(s, t, i) ==
    IF i > Len(s) THEN i <= Len(t)
    ELSE IF i > Len(t) THEN FALSE
    ELSE IF s[i] # t[i] THEN Ord(s[i]) < Ord(t[i])
    ELSE StrLessFrom(s, t, i + 1)

StrLess(s, t) == StrLessFrom(s, t, 1)

\* strings.HasPrefix
HasPrefix(s, prefix) ==
    /\ Len(prefix) <= Len(s)
    /\ SubSeq(s, 1, Len(prefix)) = prefix

\* strings.Index: the 1-based position of the first occurrence of sep, 0 if none.
Index(s, sep) ==
    LET hits == {i \in 1..(Len(s) - Len(sep) + 1) :
                    SubSeq(s, i, i + Len(sep) - 1) = sep}
    IN  IF hits = {} THEN 0
        ELSE CHOOSE i \in hits : \A j \in hits : i <= j

\* strings.SplitN(s, sep, 2) for a non-empty sep.
SplitN2(s, sep) ==
    LET i == Index(s, sep)
    IN  IF i = 0 THEN <<s>>
        ELSE <<SubSeq(s, 1, i - 1), SubSeq(s, i + Len(sep), Len(s))>>

Join(dir, name) == dir \o <<"/">> \o name

\* sort.Strings on a short slice: insertion sort with Go's string order.
RECURSIVE InsertStr(_, _)
InsertStr(s, j) ==
    IF j > 1 /\ StrLess(s[j], s[j - 1])
    THEN InsertStr([s EXCEPT ![j] = s[j - 1], ![j - 1] = s[j]], j - 1)
    ELSE s

RECURSIVE SortStringsFrom(_, _)
SortStringsFrom(s, i) ==
    IF i > Len(s) THEN s ELSE SortStringsFrom(InsertStr(s, i), i + 1)

SortStrings(s) == SortStringsFrom(s, 2)

-----------------------------------------------------------------------------
(* Library.Name *)

\* The loop of commonAncestor over min and max (0-based i as in the source,
\* lastSlashIndex counted in bytes before the slash).
RECURSIVE AncestorLoop(_, _, _, _)
AncestorLoop(min, max, i, lastSlashIndex) ==
    IF ~(i < Len(min) /\ i < Len(max)) THEN min
    ELSE IF min[i + 1] # max[i + 1] THEN SubSeq(min, 1, lastSlashIndex)
    ELSE AncestorLoop(min, max, i + 1,
                      IF min[i + 1] = "/" THEN i ELSE lastSlashIndex)

\* commonAncestor returns a string and sorts its argument in place: the
\* result is [name, paths], paths being the slice as the call leaves it.
commonAncestor(paths) ==
    IF Len(paths) = 0 THEN [name |-> <<>>, paths |-> paths]
    ELSE IF Len(paths) = 1 THEN [name |-> paths[1], paths |-> paths]
    ELSE LET sorted == SortStrings(paths)
         IN  [name |-> AncestorLoop(sorted[1], sorted[Len(sorted)], 0, 0),
              paths |-> sorted]

\* l.Name(): the string returned.
Name(l) == commonAncestor(l.Packages).name

\* l.Name(): the Library as the call leaves it.
AfterName(l) == [l EXCEPT !.Packages = commonAncestor(l.Packages).paths]

-----------------------------------------------------------------------------
(* The loaded package graph: what packages.Load hands to Libraries. *)

LICENSE == <<"L", "I", "C", "E", "N", "S", "E">>

\* build.Default.GOROOT
GOROOT == <<"/", "g">>

DirP == <<"/", "p">>
DirQ == <<"/", "q">>

\* A nil *packages.Module / *Module.
NilModule == [nil |-> TRUE]

\* packages.Module values of the graph: the module under development (no
\* version), a versioned dependency, and a vendored dependency whose
\* directory the loader left empty.
ModP == [nil |-> FALSE, Path |-> <<"p">>, Version |-> <<>>,
         Dir |-> DirP, Main |-> TRUE]
ModQ == [nil |-> FALSE, Path |-> <<"q">>, Version |-> <<"v", "1">>,
         Dir |-> DirQ, Main |-> FALSE]
ModX == [nil |-> FALSE, Path |-> <<"x">>, Version |-> <<"v", "1">>,
         Dir |-> <<>>, Main |-> FALSE]

\* The packages the loader can return (packages.Package, the fields the
\* Mode of Libraries asks for). Imports are chosen per behaviour.
Universe == <<
    [PkgPath |-> <<"b", "a", "d">>, Name |-> <<"b", "a", "d">>,
     GoFiles |-> <<>>, CompiledGoFiles |-> <<>>, OtherFiles |-> <<>>,
     Errors |-> <<"load error">>, Module |-> ModP],
    [PkgPath |-> <<"a">>, Name |-> <<"a">>,
     GoFiles |-> <<Join(Join(DirP, <<"a">>), <<"f">>)>>,
     CompiledGoFiles |-> <<>>, OtherFiles |-> <<>>,
     Errors |-> <<>>, Module |-> ModP],
    [PkgPath |-> <<"a", "/", "b">>, Name |-> <<"b">>,
     GoFiles |-> <<Join(Join(DirP, <<"a", "/", "b">>), <<"f">>)>>,
     CompiledGoFiles |-> <<>>, OtherFiles |-> <<>>,
     Errors |-> <<>>, Module |-> ModP],
    [PkgPath |-> <<"a", "/", "c">>, Name |-> <<"c">>,
     GoFiles |-> <<>>,
     CompiledGoFiles |-> <<Join(Join(DirQ, <<"c">>), <<"f">>)>>,
     OtherFiles |-> <<>>,
     Errors |-> <<>>, Module |-> ModQ],
    [PkgPath |-> <<"x", "/", "y">>, Name |-> <<"y">>,
     GoFiles |-> <<>>, CompiledGoFiles |-> <<>>,
     OtherFiles |-> <<Join(Join(Join(DirP, <<"v", "e", "n", "d", "o", "r">>),
                                <<"x", "/", "y">>), <<"f">>)>>,
     Errors |-> <<>>, Module |-> ModX],
    [PkgPath |-> <<"e">>, Name |-> <<"e">>,
     GoFiles |-> <<>>, CompiledGoFiles |-> <<>>, OtherFiles |-> <<>>,
     Errors |-> <<>>, Module |-> ModP],
    [PkgPath |-> <<"n">>, Name |-> <<"n">>,
     GoFiles |-> <<<<"/", "n", "/", "f">>>>,
     CompiledGoFiles |-> <<>>, OtherFiles |-> <<>>,
     Errors |-> <<>>, Module |-> NilModule],
    [PkgPath |-> <<"f", "m", "t">>, Name |-> <<"f", "m", "t">>,
     GoFiles |-> <<Join(Join(GOROOT, <<"f", "m", "t">>), <<"f">>)>>,
     CompiledGoFiles |-> <<>>, OtherFiles |-> <<>>,
     Errors |-> <<>>, Module |-> NilModule],
    [PkgPath |-> <<"u", "n", "s", "a", "f", "e">>,
     Name |-> <<"u", "n", "s", "a", "f", "e">>,
     GoFiles |-> <<>>, CompiledGoFiles |-> <<>>, OtherFiles |-> <<>>,
     Errors |-> <<>>, Module |-> NilModule]
>>

PkgIds == DOMAIN Universe

BadPkg == 1
APkg == 2
ABPkg == 3
ACPkg == 4
XYPkg == 5
EmptyPkg == 6
NilModPkg == 7
FmtPkg == 8
UnsafePkg == 9

\* The import edges a loaded graph may hold (importer, imported).
ImportCandidates == {
    <<BadPkg, ABPkg>>, <<APkg, ABPkg>>, <<APkg, ACPkg>>, <<APkg, XYPkg>>,
    <<APkg, EmptyPkg>>, <<APkg, FmtPkg>>, <<ABPkg, ACPkg>>,
    <<ABPkg, NilModPkg>>, <<ABPkg, UnsafePkg>>, <<EmptyPkg, ACPkg>>,
    <<FmtPkg, ACPkg>> }

\* The packages a root import path may name.
RootCandidates == {BadPkg, APkg, XYPkg}

\* Sequences of distinct elements of S, of length 1..n.
DistinctSeqs(S, n) ==
    {s \in UNION {[1..k -> S] : k \in 1..n} :
        \A i, j \in DOMAIN s : i # j => s[i] # s[j]}

\* License paths the classifier may report.
LicenseP == Join(DirP, LICENSE)
LicenseV == Join(Join(Join(DirP, <<"v", "e", "n", "d", "o", "r">>), <<"x">>),
                 LICENSE)
NoLicense == <<>>

LicensePaths == {NoLicense, LicenseP, LicenseV}

\* What Find returns: a path and whether err is non-nil.
FindAnswers == {[path |-> LicenseP, err |-> FALSE],
                [path |-> LicenseV, err |-> FALSE],
                [path |-> NoLicense, err |-> FALSE],
                [path |-> NoLicense, err |-> TRUE]}

NotAsked == [asked |-> FALSE]

-----------------------------------------------------------------------------
(* Libraries: the walk. *)

\* isStdLib
isStdLib(pkg) ==
    IF pkg.Name = <<"u", "n", "s", "a", "f", "e">> THEN TRUE
    ELSE IF Len(pkg.GoFiles) = 0 THEN FALSE
    ELSE HasPrefix(pkg.GoFiles[1], GOROOT)

\* The switch that picks the file whose directory is searched: FALSE in the
\* default case (the package is empty).
HasPkgDir(pkg) ==
    \/ Len(pkg.GoFiles) > 0
    \/ Len(pkg.CompiledGoFiles) > 0
    \/ Len(pkg.OtherFiles) > 0

\* The import paths of p's Imports, sorted as packages.Visit sorts them,
\* given as package ids.
SortedImports(p) ==
    LET kids  == {e[2] : e \in {d \in imports : d[1] = p}}
        ord   == CHOOSE f \in [1..Cardinality(kids) -> kids] :
                    \A i, j \in 1..Cardinality(kids) : i # j => f[i] # f[j]
        paths == SortStrings([i \in 1..Cardinality(kids) |->
                                 Universe[ord[i]].PkgPath])
    IN  [i \in 1..Cardinality(kids) |->
            CHOOSE q \in kids : Universe[q].PkgPath = paths[i]]

\* packages.Load: the graph is there; Load itself may fail.
LoadFails ==
    /\ mode = "Libraries" /\ pc = "load"
    /\ pc' = "returned"
    /\ retErr' = [kind |-> "LoadError"]
    /\ UNCHANGED <<mode, rootPkgs, imports, stack, seen, found, pkgsByLicense,
                   errorOccurred, mapOrder, libraries, lib, nameOut,
                   urlVars>>

LoadOk ==
    /\ mode = "Libraries" /\ pc = "load"
    /\ pc' = "visit"
    /\ stack' = rootPkgs
    /\ UNCHANGED <<mode, rootPkgs, imports, seen, found, pkgsByLicense,
                   errorOccurred, mapOrder, libraries, retErr, lib, nameOut,
                   urlVars>>

\* packages.Visit reaches a package it has seen: nothing happens.
VisitSeen ==
    /\ mode = "Libraries" /\ pc = "visit" /\ stack # <<>>
    /\ Head(stack) \in seen
    /\ stack' = Tail(stack)
    /\ UNCHANGED <<mode, pc, rootPkgs, imports, seen, found, pkgsByLicense,
                   errorOccurred, mapOrder, libraries, retErr, lib, nameOut,
                   urlVars>>

\* The pre callback returns false for a package with load errors.
VisitError ==
    /\ mode = "Libraries" /\ pc = "visit" /\ stack # <<>>
    /\ Head(stack) \notin seen
    /\ Len(Universe[Head(stack)].Errors) > 0
    /\ seen' = seen \cup {Head(stack)}
    /\ errorOccurred' = TRUE
    /\ stack' = Tail(stack)
    /\ UNCHANGED <<mode, pc, rootPkgs, imports, found, pkgsByLicense,
                   mapOrder, libraries, retErr, lib, nameOut,
                   urlVars>>

\* VisitStdLib with a slip: the callback returns true.
VisitStdLibDescends ==
    /\ mode = "Libraries" /\ pc = "visit" /\ stack # <<>>
    /\ Head(stack) \notin seen
    /\ Len(Universe[Head(stack)].Errors) = 0
    /\ isStdLib(Universe[Head(stack)])
    /\ seen' = seen \cup {Head(stack)}
    /\ stack' = SortedImports(Head(stack)) \o Tail(stack)
    /\ UNCHANGED <<mode, pc, rootPkgs, imports, found, pkgsByLicense,
                   errorOccurred, mapOrder, libraries, retErr, lib, nameOut,
                   urlVars>>

\* The pre callback returns false for a standard library package.
VisitStdLib ==
    /\ mode = "Libraries" /\ pc = "visit" /\ stack # <<>>
    /\ Head(stack) \notin seen
    /\ Len(Universe[Head(stack)].Errors) = 0
    /\ isStdLib(Universe[Head(stack)])
    /\ seen' = seen \cup {Head(stack)}
    /\ stack' = Tail(stack)
    /\ UNCHANGED <<mode, pc, rootPkgs, imports, found, pkgsByLicense,
                   errorOccurred, mapOrder, libraries, retErr, lib, nameOut,
                   urlVars>>

\* The pre callback returns true for an empty package without recording it.
VisitEmpty ==
    /\ mode = "Libraries" /\ pc = "visit" /\ stack # <<>>
    /\ Head(stack) \notin seen
    /\ Len(Universe[Head(stack)].Errors) = 0
    /\ ~isStdLib(Universe[Head(stack)])
    /\ ~HasPkgDir(Universe[Head(stack)])
    /\ seen' = seen \cup {Head(stack)}
    /\ stack' = SortedImports(Head(stack)) \o Tail(stack)
    /\ UNCHANGED <<mode, pc, rootPkgs, imports, found, pkgsByLicense,
                   errorOccurred, mapOrder, libraries, retErr, lib, nameOut,
                   urlVars>>

\* p.Module.Dir on a nil Module: a nil pointer dereference, the call panics.
VisitNilModule ==
    /\ mode = "Libraries" /\ pc = "visit" /\ stack # <<>>
    /\ Head(stack) \notin seen
    /\ Len(Universe[Head(stack)].Errors) = 0
    /\ ~isStdLib(Universe[Head(stack)])
    /\ HasPkgDir(Universe[Head(stack)])
    /\ Universe[Head(stack)].Module.nil
    /\ seen' = seen \cup {Head(stack)}
    /\ pc' = "panic"
    /\ UNCHANGED <<mode, rootPkgs, imports, stack, found, pkgsByLicense,
                   errorOccurred, mapOrder, libraries, retErr, lib, nameOut,
                   urlVars>>

\* VisitFind with a slip: a package whose Find failed is not recorded.
VisitFindDropOnError ==
    /\ mode = "Libraries" /\ pc = "visit" /\ stack # <<>>
    /\ Head(stack) \notin seen
    /\ Len(Universe[Head(stack)].Errors) = 0
    /\ ~isStdLib(Universe[Head(stack)])
    /\ HasPkgDir(Universe[Head(stack)])
    /\ ~Universe[Head(stack)].Module.nil
    /\ \E answer \in FindAnswers :
        /\ found' = [found EXCEPT ![Head(stack)] = answer]
        /\ pkgsByLicense' = IF answer.err THEN pkgsByLicense
                            ELSE [pkgsByLicense EXCEPT ![answer.path] =
                                    Append(@, Head(stack))]
    /\ seen' = seen \cup {Head(stack)}
    /\ stack' = SortedImports(Head(stack)) \o Tail(stack)
    /\ UNCHANGED <<mode, pc, rootPkgs, imports, errorOccurred, mapOrder,
                   libraries, retErr, lib, nameOut,
                   urlVars>>

\* VisitFind with a slip: an error of Find is treated like a load error.
VisitFindAbortOnError ==
    /\ mode = "Libraries" /\ pc = "visit" /\ stack # <<>>
    /\ Head(stack) \notin seen
    /\ Len(Universe[Head(stack)].Errors) = 0
    /\ ~isStdLib(Universe[Head(stack)])
    /\ HasPkgDir(Universe[Head(stack)])
    /\ ~Universe[Head(stack)].Module.nil
    /\ \E answer \in FindAnswers :
        /\ found' = [found EXCEPT ![Head(stack)] = answer]
        /\ errorOccurred' = (errorOccurred \/ answer.err)
        /\ pkgsByLicense' = IF answer.err THEN pkgsByLicense
                            ELSE [pkgsByLicense EXCEPT ![answer.path] =
                                    Append(@, Head(stack))]
        /\ stack' = IF answer.err THEN Tail(stack)
                    ELSE SortedImports(Head(stack)) \o Tail(stack)
    /\ seen' = seen \cup {Head(stack)}
    /\ UNCHANGED <<mode, pc, rootPkgs, imports, mapOrder,
                   libraries, retErr, lib, nameOut,
                   urlVars>>

\* The pre callback asks Find for the license, logs an error if there is
\* one, records the package under the path returned and returns true. (The
\* pkgs map it also fills is never read.)
VisitFind ==
    /\ mode = "Libraries" /\ pc = "visit" /\ stack # <<>>
    /\ Head(stack) \notin seen
    /\ Len(Universe[Head(stack)].Errors) = 0
    /\ ~isStdLib(Universe[Head(stack)])
    /\ HasPkgDir(Universe[Head(stack)])
    /\ ~Universe[Head(stack)].Module.nil
    /\ \E answer \in FindAnswers :
        /\ found' = [found EXCEPT ![Head(stack)] = answer]
        /\ pkgsByLicense' = [pkgsByLicense EXCEPT ![answer.path] =
                                Append(@, Head(stack))]
    /\ seen' = seen \cup {Head(stack)}
    /\ stack' = SortedImports(Head(stack)) \o Tail(stack)
    /\ UNCHANGED <<mode, pc, rootPkgs, imports, errorOccurred, mapOrder,
                   libraries, retErr, lib, nameOut,
                   urlVars>>

-----------------------------------------------------------------------------
(* Libraries: grouping, module repair and the final sort. *)

\* newModule: the Module of a packages.Module (nil for nil).
newModule(mod) ==
    IF mod.nil THEN NilModule
    ELSE [nil |-> FALSE, Path |-> mod.Path, Version |-> mod.Version,
          Dir |-> mod.Dir]

VendorMarker == <<"/", "v", "e", "n", "d", "o", "r", "/">>

\* ParentPkgFrom with a slip: the module path is compared, not its directory.
RECURSIVE ParentPkgByPath(_, _)
ParentPkgByPath(parentModDir, i) ==
    IF i > Len(rootPkgs) THEN 0
    ELSE IF /\ ~Universe[rootPkgs[i]].Module.nil
            /\ Universe[rootPkgs[i]].Module.Path = parentModDir
         THEN rootPkgs[i]
         ELSE ParentPkgByPath(parentModDir, i + 1)

\* The search over rootPkgs for the parent package of a vendored module:
\* the first root with a non-nil Module whose Dir is parentModDir, 0 (nil)
\* if there is none.
RECURSIVE ParentPkgFrom(_, _)
ParentPkgFrom(parentModDir, i) ==
    IF i > Len(rootPkgs) THEN 0
    ELSE IF /\ ~Universe[rootPkgs[i]].Module.nil
            /\ Universe[rootPkgs[i]].Module.Dir = parentModDir
         THEN rootPkgs[i]
         ELSE ParentPkgFrom(parentModDir, i + 1)

\* The body run for each member once lib.module is set: the module lib has
\* afterwards.
RepairModule(l) ==
    IF ~l.module.nil /\ l.module.Path # <<>> /\ l.module.Dir = <<>>
    THEN LET splits == SplitN2(l.LicensePath, VendorMarker)
         IN  IF Len(splits) # 2 THEN l.module
             ELSE LET parentPkg == ParentPkgFrom(splits[1], 1)
                  IN  IF parentPkg = 0 THEN l.module
                      ELSE newModule(Universe[parentPkg].Module)
    ELSE l.module

\* The loop over the packages of one bucket with a license path.
RECURSIVE MemberLoop(_, _, _)
MemberLoop(l, pkgs, i) ==
    IF i > Len(pkgs) THEN l
    ELSE LET l1 == [l EXCEPT !.Packages =
                        Append(@, Universe[pkgs[i]].PkgPath)]
             l2 == IF l1.module.nil
                   THEN [l1 EXCEPT !.module = newModule(Universe[pkgs[i]].Module)]
                   ELSE l1
             l3 == [l2 EXCEPT !.module = RepairModule(l2)]
         IN  MemberLoop(l3, pkgs, i + 1)

\* BucketLibraries with a slip: the packages without license are grouped
\* like any other bucket.
BucketLibrariesNoSingletons(licensePath, pkgs) ==
    <<MemberLoop([LicensePath |-> licensePath, Packages |-> <<>>,
                  module |-> NilModule], pkgs, 1)>>

\* The Libraries one bucket adds.
BucketLibraries(licensePath, pkgs) ==
    IF licensePath = <<>>
    THEN [i \in 1..Len(pkgs) |->
            [LicensePath |-> <<>>,
             Packages |-> <<Universe[pkgs[i]].PkgPath>>,
             module |-> newModule(Universe[pkgs[i]].Module)]]
    ELSE <<MemberLoop([LicensePath |-> licensePath, Packages |-> <<>>,
                       module |-> NilModule], pkgs, 1)>>

\* The range over pkgsByLicense, visiting the keys in the given order.
RECURSIVE RangeBuckets(_, _, _)
RangeBuckets(byLicense, order, i) ==
    IF i > Len(order) THEN <<>>
    ELSE BucketLibraries(order[i], byLicense[order[i]])
            \o RangeBuckets(byLicense, order, i + 1)

\* The keys of the map: a path is a key once a package was appended to it.
Keys(byLicense) == {k \in DOMAIN byLicense : byLicense[k] # <<>>}

\* The orders in which a range over the map may yield its keys.
KeyOrders(byLicense) ==
    {o \in [1..Cardinality(Keys(byLicense)) -> Keys(byLicense)] :
        \A i, j \in DOMAIN o : i # j => o[i] # o[j]}

\* LibLess with a slip: the comparison is turned around.
LibLessReversed(a, b) == StrLess(Name(b), Name(a))

\* The less function handed to sort.Slice.
LibLess(a, b) == StrLess(Name(a), Name(b))

\* sort.Slice on a short slice: insertion sort.
RECURSIVE InsertLib(_, _)
InsertLib(s, j) ==
    IF j > 1 /\ LibLess(s[j], s[j - 1])
    THEN InsertLib([s EXCEPT ![j] = s[j - 1], ![j - 1] = s[j]], j - 1)
    ELSE s

RECURSIVE SortLibsFrom(_, _)
SortLibsFrom(s, i) ==
    IF i > Len(s) THEN s ELSE SortLibsFrom(InsertLib(s, i), i + 1)

\* sort.Slice(libraries, ...): every element is compared at least once when
\* there are two or more, and each comparison calls Name() on both sides,
\* which sorts their Packages in place.
SortSlice(libs) ==
    IF Len(libs) < 2 THEN libs
    ELSE SortLibsFrom([i \in 1..Len(libs) |-> AfterName(libs[i])], 2)

\* What Libraries returns when the walk met no error, for one order of the
\* range over the map.
GroupAndSort(byLicense, order) == SortSlice(RangeBuckets(byLicense, order, 1))

\* The walk is over and errorOccurred is set.
ReturnPackagesError ==
    /\ mode = "Libraries" /\ pc = "visit" /\ stack = <<>>
    /\ errorOccurred
    /\ pc' = "returned"
    /\ retErr' = [kind |-> "PackagesError", pkgs |-> rootPkgs]
    /\ UNCHANGED <<mode, rootPkgs, imports, stack, seen, found, pkgsByLicense,
                   errorOccurred, mapOrder, libraries, lib, nameOut,
                   urlVars>>

\* The walk is over without error: group, repair modules, sort, return.
ReturnLibraries ==
    /\ mode = "Libraries" /\ pc = "visit" /\ stack = <<>>
    /\ ~errorOccurred
    /\ \E order \in KeyOrders(pkgsByLicense) :
        /\ mapOrder' = order
        /\ libraries' = GroupAndSort(pkgsByLicense, order)
    /\ pc' = "returned"
    /\ retErr' = NoError
    /\ UNCHANGED <<mode, rootPkgs, imports, stack, seen, found, pkgsByLicense,
                   errorOccurred, lib, nameOut,
                   urlVars>>

\* Libraries is called on a loaded graph.
Init ==
    /\ mode = "Libraries"
    /\ pc = "load"
    /\ rootPkgs \in DistinctSeqs(RootCandidates, MaxRoots)
    /\ imports \in {E \in SUBSET ImportCandidates : Cardinality(E) <= MaxImports}
    /\ stack = <<>>
    /\ seen = {}
    /\ found = [p \in PkgIds |-> NotAsked]
    /\ pkgsByLicense = [k \in LicensePaths |-> <<>>]
    /\ errorOccurred = FALSE
    /\ mapOrder = <<>>
    /\ libraries = <<>>
    /\ retErr = NoError
    /\ UrlIdle
    /\ CsvIdle
    /\ lib = [LicensePath |-> <<>>, Packages |-> <<>>, module |-> NilModule]
    /\ nameOut = <<>>

Next ==
    \/ LoadFails
    \/ LoadOk
    \/ VisitSeen
    \/ VisitError
    \/ VisitStdLib
    \/ VisitEmpty
    \/ VisitNilModule
    \/ VisitFind
    \/ ReturnPackagesError
    \/ ReturnLibraries

Spec == Init /\ [][Next]_vars

-----------------------------------------------------------------------------
(* Library.Name called on a Library. *)

\* Longest import path drawn for a Library whose Name is computed.
MaxPathLen == 3

PathChars == {"a", "b", "/"}

\* Well-formed import paths: non-empty segments separated by single slashes.
WellFormed(s) ==
    /\ s[1] # "/"
    /\ s[Len(s)] # "/"
    /\ \A i \in 1..(Len(s) - 1) : ~(s[i] = "/" /\ s[i + 1] = "/")

ImportPaths ==
    {s \in UNION {[1..n -> PathChars] : n \in 1..MaxPathLen} : WellFormed(s)}
        \cup {<<"a", "/", "b", "/", "c">>, <<"a", "/", "b", "/", "d">>}

InitName ==
    /\ mode = "Name"
    /\ pc = "call"
    /\ lib \in {[LicensePath |-> LicenseP, Packages |-> ps, module |-> NilModule] :
                    ps \in UNION {[1..n -> ImportPaths] : n \in 1..MaxPaths}}
    /\ nameOut = <<>>
    /\ rootPkgs = <<>>
    /\ imports = {}
    /\ stack = <<>>
    /\ seen = {}
    /\ found = [p \in PkgIds |-> NotAsked]
    /\ pkgsByLicense = [k \in LicensePaths |-> <<>>]
    /\ errorOccurred = FALSE
    /\ mapOrder = <<>>
    /\ libraries = <<>>
    /\ retErr = NoError
    /\ UrlIdle
    /\ CsvIdle

\* l.Name() returns the common ancestor and leaves l.Packages sorted.
CallName ==
    /\ mode = "Name" /\ pc = "call"
    /\ nameOut' = Name(lib)
    /\ lib' = AfterName(lib)
    /\ pc' = "returned"
    /\ UNCHANGED <<mode, rootPkgs, imports, stack, seen, found, pkgsByLicense,
                   errorOccurred, mapOrder, libraries, retErr,
                   urlVars>>

NextName == CallName

SpecName == InitName /\ [][NextName]_vars

-----------------------------------------------------------------------------
(* Properties of Libraries. *)

Succeeded == mode = "Libraries" /\ pc = "returned" /\ retErr = NoError

\* The package with the given import path.
PkgOfPath(path) == CHOOSE p \in PkgIds : Universe[p].PkgPath = path

\* The places of the returned list that hold the import path of p.
Memberships(p) ==
    {pos \in UNION {{<<i, j>> : j \in DOMAIN libraries[i].Packages} :
                        i \in DOMAIN libraries} :
        libraries[pos[1]].Packages[pos[2]] = Universe[p].PkgPath}

\* The visited packages that loaded without errors and are not part of the
\* standard library.
Eligible == {p \in seen : Len(Universe[p].Errors) = 0 /\ ~isStdLib(Universe[p])}

\* C1 as stated: after a successful return every visited package that loaded
\* without errors and is not a standard-library package is listed in exactly
\* one place of exactly one returned Library.
C1_EveryEligiblePackageOnce ==
    Succeeded => \A p \in Eligible : Cardinality(Memberships(p)) = 1

\* C1 amended: after a successful return every visited package that loaded
\* without errors, is not a standard-library package and has at least one
\* file (Go, compiled Go or other) is listed in exactly one place of exactly
\* one returned Library; a visited package without any file is in none.
C1_EveryNonEmptyPackageOnce ==
    Succeeded =>
        \A p \in Eligible :
            Cardinality(Memberships(p)) = IF HasPkgDir(Universe[p]) THEN 1 ELSE 0

C1_Witness ==
    /\ Succeeded
    /\ EmptyPkg \in seen
    /\ \E p, q \in Eligible :
        /\ p # q /\ HasPkgDir(Universe[p]) /\ HasPkgDir(Universe[q])
        /\ \E m \in Memberships(p), n \in Memberships(q) : m[1] = n[1]

\* The packages for which the classifier returned the given path.
Classified(path) == {p \in PkgIds : found[p] # NotAsked /\ found[p].path = path}

\* C2: on success there is exactly one Library per non-empty license path the
\* classifier returned, holding exactly the packages classified to that path,
\* each once; every package classified to the empty path is a Library of its
\* own with an empty LicensePath; and there are no other Libraries.
C2_GroupedByLicensePath ==
    Succeeded =>
        /\ \A k \in LicensePaths \ {NoLicense} :
            Classified(k) # {} =>
                /\ Cardinality({i \in DOMAIN libraries :
                                    libraries[i].LicensePath = k}) = 1
                /\ \A i \in DOMAIN libraries :
                    libraries[i].LicensePath = k =>
                        /\ {libraries[i].Packages[j] :
                                j \in DOMAIN libraries[i].Packages}
                             = {Universe[p].PkgPath : p \in Classified(k)}
                        /\ Len(libraries[i].Packages) = Cardinality(Classified(k))
        /\ \A p \in Classified(NoLicense) :
            Cardinality({i \in DOMAIN libraries :
                            /\ libraries[i].LicensePath = NoLicense
                            /\ libraries[i].Packages = <<Universe[p].PkgPath>>}) = 1
        /\ \A i \in DOMAIN libraries :
            IF libraries[i].LicensePath = NoLicense
            THEN /\ Len(libraries[i].Packages) = 1
                 /\ PkgOfPath(libraries[i].Packages[1]) \in Classified(NoLicense)
            ELSE Classified(libraries[i].LicensePath) # {}

C2_Witness ==
    /\ Succeeded
    /\ Cardinality(Classified(LicenseP)) = 2
    /\ Cardinality(Classified(NoLicense)) = 2
    /\ Len(libraries) = 3

\* The Module of the first package appended to the bucket of a Library.
FirstMemberModule(l) ==
    newModule(Universe[pkgsByLicense[l.LicensePath][1]].Module)

\* C3 as stated: every member of a returned Library with more than one
\* member has the Library's module as its own module (path, version and
\* directory), unless the vendoring fallback replaced the module taken from
\* the first member.
C3_MembersShareModule ==
    Succeeded =>
        \A i \in DOMAIN libraries :
            (/\ Len(libraries[i].Packages) > 1
             /\ libraries[i].module = FirstMemberModule(libraries[i]))
            => \A j \in DOMAIN libraries[i].Packages :
                    newModule(Universe[PkgOfPath(libraries[i].Packages[j])].Module)
                        = libraries[i].module

\* C5: the returned list is sorted by Name(): no Library is followed by one
\* with a smaller Name().
C5_SortedByName ==
    Succeeded =>
        \A i \in 1..(Len(libraries) - 1) :
            ~StrLess(Name(libraries[i + 1]), Name(libraries[i]))

\* The range over the map produced two Libraries out of Name() order, and
\* the returned list holds Libraries with different names.
C5_Witness ==
    /\ Succeeded
    /\ LET built == RangeBuckets(pkgsByLicense, mapOrder, 1)
       IN  \E i, j \in DOMAIN built :
                i < j /\ StrLess(Name(built[j]), Name(built[i]))
    /\ \E i \in 1..(Len(libraries) - 1) :
            StrLess(Name(libraries[i]), Name(libraries[i + 1]))

\* C6 as stated: what Libraries returns does not depend on the order in which
\* the range over the bucket map yields its keys.
C6_SameForEveryMapOrder ==
    Succeeded =>
        \A order \in KeyOrders(pkgsByLicense) :
            GroupAndSort(pkgsByLicense, order) = libraries

\* A package of the standard library as the walk is meant to recognise it:
\* the pseudo-package unsafe, or a first Go file under GOROOT.
StandardLibrary(pkg) ==
    \/ pkg.Name = <<"u", "n", "s", "a", "f", "e">>
    \/ /\ Len(pkg.GoFiles) > 0
       /\ HasPrefix(pkg.GoFiles[1], GOROOT \o <<"/">>)

\* The packages the walk has visited or is about to visit.
Reached == seen \cup {stack[i] : i \in DOMAIN stack}

\* C7: no returned Library lists a standard-library package, and the walk
\* reaches a package only as a root or through the imports of a visited
\* package that is not part of the standard library.
C7_NoStandardLibrary ==
    mode = "Libraries" =>
        /\ \A i \in DOMAIN libraries :
            \A j \in DOMAIN libraries[i].Packages :
                ~StandardLibrary(Universe[PkgOfPath(libraries[i].Packages[j])])
        /\ \A p \in Reached :
            \/ \E i \in DOMAIN rootPkgs : rootPkgs[i] = p
            \/ \E q \in seen :
                /\ <<q, p>> \in imports
                /\ ~StandardLibrary(Universe[q])

\* A standard-library package that imports a package was visited, next to
\* packages that made it into the result.
C7_Witness ==
    /\ Succeeded
    /\ FmtPkg \in seen
    /\ <<FmtPkg, ACPkg>> \in imports
    /\ ACPkg \notin seen
    /\ Len(libraries) >= 1

\* C8 as stated: if a visited package has a load error then Libraries ends by
\* returning PackagesError and no list, and the walk never goes below a
\* package with a load error.
C8_LoadErrorAbortsCall ==
    /\ (/\ mode = "Libraries"
        /\ pc \in {"returned", "panic"}
        /\ \E p \in seen : Len(Universe[p].Errors) > 0)
       => (pc = "returned" /\ retErr.kind = "PackagesError" /\ libraries = <<>>)
    /\ mode = "Libraries" =>
        \A p \in Reached :
            \/ \E i \in DOMAIN rootPkgs : rootPkgs[i] = p
            \/ \E q \in seen :
                /\ <<q, p>> \in imports
                /\ Len(Universe[q].Errors) = 0

\* Whether the path contains the vendoring marker, and what precedes its
\* first occurrence.
MarkerAt(path, i) ==
    /\ i + Len(VendorMarker) - 1 <= Len(path)
    /\ SubSeq(path, i, i + Len(VendorMarker) - 1) = VendorMarker

ContainsMarker(path) == \E i \in 1..Len(path) : MarkerAt(path, i)

BeforeFirstMarker(path) ==
    LET i == CHOOSE k \in 1..Len(path) :
                /\ MarkerAt(path, k)
                /\ \A m \in 1..(k - 1) : ~MarkerAt(path, m)
    IN  SubSeq(path, 1, i - 1)

\* The positions of the roots whose module directory is dir.
RootsAt(dir) ==
    {i \in DOMAIN rootPkgs :
        /\ ~Universe[rootPkgs[i]].Module.nil
        /\ Universe[rootPkgs[i]].Module.Dir = dir}

\* The module the first package of the Library's bucket gave it.
AssignedModule(l) ==
    IF l.LicensePath = NoLicense
    THEN newModule(Universe[PkgOfPath(l.Packages[1])].Module)
    ELSE FirstMemberModule(l)

\* C9: a returned Library whose assigned module has a path and no directory
\* gets the module of the first root package whose module directory is the
\* part of LicensePath before the first vendoring marker; without a marker,
\* or without such a root, it keeps the assigned module.
C9_VendoringFallback ==
    Succeeded =>
        \A i \in DOMAIN libraries :
            LET l == libraries[i]
                m == AssignedModule(l)
            IN  (~m.nil /\ m.Path # <<>> /\ m.Dir = <<>>) =>
                    IF /\ ContainsMarker(l.LicensePath)
                       /\ RootsAt(BeforeFirstMarker(l.LicensePath)) # {}
                    THEN LET r == CHOOSE k \in RootsAt(BeforeFirstMarker(l.LicensePath)) :
                                    \A n \in RootsAt(BeforeFirstMarker(l.LicensePath)) : k <= n
                         IN  l.module = newModule(Universe[rootPkgs[r]].Module)
                    ELSE l.module = m

\* A vendored package was grouped under a license below /vendor/ and its
\* Library got the module of the root package that vendors it.
C9_Witness ==
    /\ Succeeded
    /\ \E i \in DOMAIN libraries :
        /\ libraries[i].LicensePath = LicenseV
        /\ AssignedModule(libraries[i]) = newModule(ModX)
        /\ libraries[i].module = newModule(ModP)

\* The packages for which Find returned an error.
FindFailed == {p \in PkgIds : found[p] # NotAsked /\ found[p].err}

\* The packages appended to the bucket of the given path.
Bucket(path) == {pkgsByLicense[path][i] : i \in DOMAIN pkgsByLicense[path]}

\* A visited package has a load error.
LoadErrorSeen == \E p \in seen : Len(Universe[p].Errors) > 0

\* C19 as stated: if Find returned an error for a visited package, Libraries
\* returns an error and no list.
C19_ClassifierErrorAborts ==
    (mode = "Libraries" /\ pc = "returned" /\ FindFailed # {}) =>
        (retErr # NoError /\ libraries = <<>>)

\* C19 amended: an error of Find does not end the call. The package is
\* appended to the bucket of the path Find returned with the error and the
\* walk goes below it; Libraries returns an error only for a failed load or
\* a visited package with load errors; on success every package whose Find
\* failed with the empty path is a Library of its own without license.
C19_ClassifierErrorIsLogged ==
    mode = "Libraries" =>
        /\ \A p \in FindFailed :
            /\ p \in Bucket(found[p].path)
            /\ \A q \in PkgIds : <<p, q>> \in imports => q \in Reached
        /\ (pc = "returned" /\ retErr # NoError) =>
            \/ retErr.kind = "LoadError"
            \/ retErr.kind = "PackagesError" /\ LoadErrorSeen
        /\ Succeeded =>
            \A p \in FindFailed :
                found[p].path = NoLicense =>
                    Cardinality({i \in DOMAIN libraries :
                        /\ libraries[i].LicensePath = NoLicense
                        /\ libraries[i].Packages = <<Universe[p].PkgPath>>}) = 1

\* Find failed for one package and found a license for another: both are
\* in the list returned.
C19_Witness ==
    /\ Succeeded
    /\ FindFailed # {}
    /\ \E p \in FindFailed, q \in PkgIds : <<p, q>> \in imports /\ q \in seen
    /\ \E i \in DOMAIN libraries : libraries[i].LicensePath # NoLicense

\* C20 as stated: a call of Name() on a Library that Libraries returned (and
\* so a call of LicenseURL that wraps an error, which calls Name()) leaves
\* the Library's LicensePath, module and Packages, content and order, as
\* they are.
C20_ReturnedLibrariesReadOnly ==
    Succeeded =>
        \A i \in DOMAIN libraries : AfterName(libraries[i]) = libraries[i]

\* C25 as stated: the walk never crashes; a visited package that is not
\* part of the standard library and has a file is recorded in a bucket
\* (or the call goes on to return an error), also when its Module is nil.
C25_NilModuleHandled ==
    mode = "Libraries" =>
        /\ pc # "panic"
        /\ \A p \in seen :
            (/\ Len(Universe[p].Errors) = 0
             /\ ~isStdLib(Universe[p])
             /\ HasPkgDir(Universe[p]))
            => (found[p] # NotAsked /\ p \in Bucket(found[p].path))

-----------------------------------------------------------------------------
(* Properties of Library.Name. *)

\* q is p or a prefix of p that ends where a segment of p ends; the empty
\* string is the ancestor of everything.
IsAncestor(q, p) ==
    \/ q = <<>>
    \/ q = p
    \/ /\ Len(q) < Len(p)
       /\ SubSeq(p, 1, Len(q)) = q
       /\ p[Len(q) + 1] = "/"

\* The ancestors common to all the paths.
CommonAncestors(paths) ==
    {q \in {SubSeq(paths[1], 1, n) : n \in 0..Len(paths[1])} :
        \A i \in DOMAIN paths : IsAncestor(q, paths[i])}

\* C4 as stated: Name() returns the longest prefix that ends at a segment
\* boundary of every member, and the only member of a single-member Library.
C4_NameIsLongestCommonAncestor ==
    (mode = "Name" /\ pc = "returned") =>
        /\ nameOut \in CommonAncestors(lib.Packages)
        /\ \A q \in CommonAncestors(lib.Packages) : Len(q) <= Len(nameOut)
        /\ Len(lib.Packages) = 1 => nameOut = lib.Packages[1]

-----------------------------------------------------------------------------
(* Library.LicenseURL *)

\* A nil *Library.
NilLibrary == [nil |-> TRUE]

\* The segments of a clean slash-separated path.
RECURSIVE SegmentsFrom(_, _, _)
SegmentsFrom(path, i, cur) ==
    IF i > Len(path) THEN (IF cur = <<>> THEN <<>> ELSE <<cur>>)
    ELSE IF path[i] = "/"
         THEN (IF cur = <<>> THEN <<>> ELSE <<cur>>)
                \o SegmentsFrom(path, i + 1, <<>>)
         ELSE SegmentsFrom(path, i + 1, Append(cur, path[i]))

Segments(path) == SegmentsFrom(path, 1, <<>>)

RECURSIVE JoinSegments(_)
JoinSegments(segs) ==
    IF Len(segs) = 0 THEN <<>>
    ELSE IF Len(segs) = 1 THEN segs[1]
    ELSE Join(segs[1], JoinSegments(Tail(segs)))

IsAbs(path) == Len(path) > 0 /\ path[1] = "/"

\* filepath.Rel for clean paths (an empty path cleans to "."): the relative
\* path and whether err is non-nil. An absolute and a relative path cannot
\* be made relative to each other.
Rel(basepath, targpath) ==
    IF IsAbs(basepath) # IsAbs(targpath)
    THEN [path |-> <<>>, err |-> TRUE]
    ELSE IF basepath = targpath THEN [path |-> <<".">>, err |-> FALSE]
    ELSE LET b == Segments(basepath)
             t == Segments(targpath)
             same == {n \in 0..Min(Len(b), Len(t)) :
                        SubSeq(b, 1, n) = SubSeq(t, 1, n)}
             n == CHOOSE k \in same : \A m \in same : m <= k
             ups == [i \in 1..(Len(b) - n) |-> <<".", ".">>]
         IN  [path |-> JoinSegments(ups \o SubSeq(t, n + 1, Len(t))),
              err |-> FALSE]

\* What source.ModuleInfo may report: where the module sits in its
\* repository and whether the host serves raw files, with the commit the
\* version resolves to.
Remotes(version) ==
    {[known |-> TRUE, moduleDir |-> dir, raw |-> raw, commit |-> version] :
        dir \in {<<>>, <<"s">>}, raw \in BOOLEAN}

\* remote.SetCommit
SetCommit(r, commit) == [r EXCEPT !.commit = commit]

HEAD == <<"H", "E", "A", "D">>

\* The file of the repository a URL points at: joined below the module's
\* directory, or taken from the repository root.
InModule(r, pathname) ==
    IF r.moduleDir = <<>> THEN pathname ELSE Join(r.moduleDir, pathname)

\* remote.FileURL, remote.RepoFileURL: browsable URLs.
FileURL(r, pathname) ==
    [raw |-> FALSE, commit |-> r.commit, file |-> InModule(r, pathname)]

RepoFileURL(r, pathname) ==
    [raw |-> FALSE, commit |-> r.commit, file |-> pathname]

\* remote.RawURL, remote.RepoRawURL: raw URLs, empty when the host has none.
RawURL(r, pathname) ==
    IF r.raw
    THEN [raw |-> TRUE, commit |-> r.commit, file |-> InModule(r, pathname)]
    ELSE NoURL

RepoRawURL(r, pathname) ==
    IF r.raw
    THEN [raw |-> TRUE, commit |-> r.commit, file |-> pathname]
    ELSE NoURL

\* The wrap closure: calling it calls l.Name().
wrap(l, err) == [kind |-> "getting file URL in library", library |-> Name(l),
                 cause |-> err]

\* The validationError closure over url.
validationError(u, err) == [kind |-> "failed to validate", url |-> u,
                            cause |-> err]

\* The smallest status code download rejects.
StatusNotOK == 400

\* What one http.Get and the read of its body may give.
Responses ==
    {[getErr |-> TRUE, status |-> 0, readErr |-> FALSE, body |-> "none"],
     [getErr |-> FALSE, status |-> 200, readErr |-> FALSE, body |-> "local"],
     [getErr |-> FALSE, status |-> 200, readErr |-> FALSE, body |-> "other"],
     [getErr |-> FALSE, status |-> 200, readErr |-> TRUE, body |-> "none"],
     [getErr |-> FALSE, status |-> 404, readErr |-> FALSE, body |-> "other"],
     [getErr |-> FALSE, status |-> 503, readErr |-> FALSE, body |-> "local"]}

\* download: the content and the error.
download(u, resp) ==
    IF resp.getErr
    THEN [content |-> "", err |-> [kind |-> "download", url |-> u,
                                   cause |-> "get"]]
    ELSE IF resp.status >= StatusNotOK
    THEN [content |-> "", err |-> [kind |-> "download", url |-> u,
                                   cause |-> "status not OK"]]
    ELSE IF resp.readErr
    THEN [content |-> "", err |-> [kind |-> "download", url |-> u,
                                   cause |-> "read body"]]
    ELSE [content |-> resp.body, err |-> NoError]

\* The Libraries LicenseURL is called on: nil, without module, with a
\* vendored module without directory, of the module under development, of a
\* versioned module with the license at its root or below, and one without
\* license.
URLLibraries ==
    {NilLibrary,
     [LicensePath |-> LicenseP,
      Packages |-> <<<<"a", "/", "b">>, <<"a">>>>, module |-> NilModule],
     [LicensePath |-> LicenseV,
      Packages |-> <<<<"x", "/", "y">>>>, module |-> newModule(ModX)],
     [LicensePath |-> LicenseP,
      Packages |-> <<<<"a", "/", "b">>, <<"a">>>>, module |-> newModule(ModP)],
     [LicensePath |-> Join(DirQ, LICENSE),
      Packages |-> <<<<"a", "/", "c">>>>, module |-> newModule(ModQ)],
     [LicensePath |-> Join(Join(DirQ, <<"c">>), LICENSE),
      Packages |-> <<<<"a", "/", "c">>>>, module |-> newModule(ModQ)],
     [LicensePath |-> NoLicense,
      Packages |-> <<<<"b">>, <<"a">>>>, module |-> newModule(ModP)]}

InitURL ==
    /\ mode = "LicenseURL"
    /\ pc = "call"
    /\ lib \in URLLibraries
    /\ testOnlySkipValidation \in BOOLEAN
    /\ remote = NoRemote
    /\ relativePath = <<>>
    /\ attempt = 0
    /\ try = 0
    /\ validationError1 = NoError
    /\ calls = <<>>
    /\ urlOut = NoURL
    /\ retErr = NoError
    /\ nameOut = <<>>
    /\ rootPkgs = <<>>
    /\ imports = {}
    /\ stack = <<>>
    /\ seen = {}
    /\ found = [p \in PkgIds |-> NotAsked]
    /\ pkgsByLicense = [k \in LicensePaths |-> <<>>]
    /\ errorOccurred = FALSE
    /\ mapOrder = <<>>
    /\ libraries = <<>>
    /\ CsvIdle

\* The variables LicenseURL never touches.
otherVars == <<mode, rootPkgs, imports, stack, seen, found, pkgsByLicense,
               errorOccurred, mapOrder, libraries, nameOut,
               testOnlySkipValidation, csvVars>>

\* LicenseURL returns u and err; wrapped says whether wrap was called.
Return(u, err, wrapped) ==
    /\ pc' = "returned"
    /\ urlOut' = u
    /\ retErr' = err
    /\ lib' = IF wrapped THEN AfterName(lib) ELSE lib

\* URLCheckModule with a slip: the module's directory is not checked.
URLCheckModuleNoDirCheck ==
    /\ mode = "LicenseURL" /\ pc = "call"
    /\ IF lib = NilLibrary
       THEN /\ Return(NoURL, [kind |-> "library is nil"], FALSE)
            /\ UNCHANGED <<remote, relativePath, attempt, try,
                           validationError1, calls>>
       ELSE IF lib.module.nil
       THEN /\ Return(NoURL, wrap(lib, [kind |-> "empty go module info"]), TRUE)
            /\ UNCHANGED <<remote, relativePath, attempt, try,
                           validationError1, calls>>
       ELSE /\ pc' = "moduleInfo"
            /\ UNCHANGED <<lib, retErr, urlVars>>
    /\ UNCHANGED otherVars

\* The checks of the receiver and its module, before anything is looked up.
URLCheckModule ==
    /\ mode = "LicenseURL" /\ pc = "call"
    /\ IF lib = NilLibrary
       THEN /\ Return(NoURL, [kind |-> "library is nil"], FALSE)
            /\ UNCHANGED <<remote, relativePath, attempt, try,
                           validationError1, calls>>
       ELSE IF lib.module.nil
       THEN /\ Return(NoURL, wrap(lib, [kind |-> "empty go module info"]), TRUE)
            /\ UNCHANGED <<remote, relativePath, attempt, try,
                           validationError1, calls>>
       ELSE IF lib.module.Dir = <<>>
       THEN /\ Return(NoURL, wrap(lib, [kind |-> "empty go module dir"]), TRUE)
            /\ UNCHANGED <<remote, relativePath, attempt, try,
                           validationError1, calls>>
       ELSE /\ pc' = "moduleInfo"
            /\ UNCHANGED <<lib, retErr, urlVars>>
    /\ UNCHANGED otherVars

\* URLModuleInfoFails with a slip: a URL made from the local path is
\* returned next to the error.
URLModuleInfoFailsWithURL ==
    /\ mode = "LicenseURL" /\ pc = "moduleInfo"
    /\ calls' = Append(calls, [op |-> "ModuleInfo", path |-> lib.module.Path,
                               version |-> lib.module.Version])
    /\ Return([raw |-> FALSE, commit |-> lib.module.Version,
               file |-> lib.LicensePath],
              wrap(lib, [kind |-> "ModuleInfo"]), TRUE)
    /\ UNCHANGED <<remote, relativePath, attempt, try, validationError1>>
    /\ UNCHANGED otherVars

\* source.ModuleInfo fails.
URLModuleInfoFails ==
    /\ mode = "LicenseURL" /\ pc = "moduleInfo"
    /\ calls' = Append(calls, [op |-> "ModuleInfo", path |-> lib.module.Path,
                               version |-> lib.module.Version])
    /\ Return(NoURL, wrap(lib, [kind |-> "ModuleInfo"]), TRUE)
    /\ UNCHANGED <<remote, relativePath, attempt, try, validationError1>>
    /\ UNCHANGED otherVars

\* URLModuleInfo with a slip: the commit is left as the lookup gave it.
URLModuleInfoKeepsCommit ==
    /\ mode = "LicenseURL" /\ pc = "moduleInfo"
    /\ calls' = Append(calls, [op |-> "ModuleInfo", path |-> lib.module.Path,
                               version |-> lib.module.Version])
    /\ \E info \in Remotes(lib.module.Version) :
        LET r == info
            rel == Rel(lib.module.Dir, lib.LicensePath)
        IN  /\ remote' = r
            /\ IF rel.err
               THEN /\ Return(NoURL, wrap(lib, [kind |-> "Rel"]), TRUE)
                    /\ UNCHANGED relativePath
               ELSE /\ relativePath' = rel.path
                    /\ IF testOnlySkipValidation
                       THEN Return(FileURL(r, rel.path), NoError, FALSE)
                       ELSE /\ pc' = "readFile"
                            /\ UNCHANGED <<lib, retErr, urlOut>>
    /\ UNCHANGED <<attempt, try, validationError1>>
    /\ UNCHANGED otherVars

\* source.ModuleInfo succeeds: the commit is set for an empty version, the
\* relative path and the URL are computed, and the URL is returned as it is
\* when validation is switched off.
URLModuleInfo ==
    /\ mode = "LicenseURL" /\ pc = "moduleInfo"
    /\ calls' = Append(calls, [op |-> "ModuleInfo", path |-> lib.module.Path,
                               version |-> lib.module.Version])
    /\ \E info \in Remotes(lib.module.Version) :
        LET r == IF lib.module.Version = <<>> THEN SetCommit(info, HEAD)
                 ELSE info
            rel == Rel(lib.module.Dir, lib.LicensePath)
        IN  /\ remote' = r
            /\ IF rel.err
               THEN /\ Return(NoURL, wrap(lib, [kind |-> "Rel"]), TRUE)
                    /\ UNCHANGED relativePath
               ELSE /\ relativePath' = rel.path
                    /\ IF testOnlySkipValidation
                       THEN Return(FileURL(r, rel.path), NoError, FALSE)
                       ELSE /\ pc' = "readFile"
                            /\ UNCHANGED <<lib, retErr, urlOut>>
    /\ UNCHANGED <<attempt, try, validationError1>>
    /\ UNCHANGED otherVars

\* URLReadFileFails with a slip: the URL computed so far is returned next to
\* the error.
URLReadFileFailsKeepsURL ==
    /\ mode = "LicenseURL" /\ pc = "readFile"
    /\ calls' = Append(calls, [op |-> "ReadFile", path |-> lib.LicensePath,
                               ok |-> FALSE])
    /\ Return(FileURL(remote, relativePath),
              validationError(FileURL(remote, relativePath),
                              [kind |-> "ReadFile"]), FALSE)
    /\ UNCHANGED <<remote, relativePath, attempt, try, validationError1>>
    /\ UNCHANGED otherVars

\* ioutil.ReadFile fails.
URLReadFileFails ==
    /\ mode = "LicenseURL" /\ pc = "readFile"
    /\ calls' = Append(calls, [op |-> "ReadFile", path |-> lib.LicensePath,
                               ok |-> FALSE])
    /\ Return(NoURL, validationError(FileURL(remote, relativePath),
                                     [kind |-> "ReadFile"]), FALSE)
    /\ UNCHANGED <<remote, relativePath, attempt, try, validationError1>>
    /\ UNCHANGED otherVars

\* URLReadFile with a slip: the first attempt starts whether or not there is
\* a raw URL.
URLReadFileAlwaysValidates ==
    /\ mode = "LicenseURL" /\ pc = "readFile"
    /\ calls' = Append(calls, [op |-> "ReadFile", path |-> lib.LicensePath,
                               ok |-> TRUE])
    /\ pc' = "download"
    /\ attempt' = 1
    /\ try' = 1
    /\ UNCHANGED <<lib, retErr, urlOut>>
    /\ UNCHANGED <<remote, relativePath, validationError1>>
    /\ UNCHANGED otherVars

\* ioutil.ReadFile succeeds: without raw URL the URL is returned unchecked,
\* otherwise the first attempt starts.
URLReadFile ==
    /\ mode = "LicenseURL" /\ pc = "readFile"
    /\ calls' = Append(calls, [op |-> "ReadFile", path |-> lib.LicensePath,
                               ok |-> TRUE])
    /\ IF RawURL(remote, relativePath) = NoURL
       THEN /\ Return(FileURL(remote, relativePath), NoError, FALSE)
            /\ UNCHANGED <<attempt, try>>
       ELSE /\ pc' = "download"
            /\ attempt' = 1
            /\ try' = 1
            /\ UNCHANGED <<lib, retErr, urlOut>>
    /\ UNCHANGED <<remote, relativePath, validationError1>>
    /\ UNCHANGED otherVars

\* AttemptRawURL with a slip: the second attempt downloads the candidate's
\* raw URL again.
AttemptRawURLCandidate == RawURL(remote, relativePath)

\* AttemptURL with a slip: the repository-root URL stands for either attempt.
AttemptURLRepoRoot == RepoFileURL(remote, LICENSE)

\* The raw URL the attempt under way downloads, and the URL it validates.
AttemptRawURL ==
    IF attempt = 1 THEN RawURL(remote, relativePath)
    ELSE RepoRawURL(remote, LICENSE)

AttemptURL ==
    IF attempt = 1 THEN FileURL(remote, relativePath)
    ELSE RepoFileURL(remote, LICENSE)

\* ValidateResult with a slip: the content downloaded is not compared.
ValidateResultIgnoresContent(d) == d.err

\* What validate returns once a download gave the content and error d.
ValidateResult(d) ==
    IF d.err # NoError THEN d.err
    ELSE IF d.content # "local"
    THEN [kind |-> "content mismatch", url |-> AttemptRawURL]
    ELSE NoError

\* URLDownloadRetry with a slip: validate also downloads again after a
\* download whose content does not match.
URLDownloadRetryOnMismatch ==
    /\ mode = "LicenseURL" /\ pc = "download" /\ try = 1
    /\ \E resp \in Responses :
        /\ ValidateResult(download(AttemptRawURL, resp)) # NoError
        /\ calls' = Append(calls, [op |-> "download", url |-> AttemptRawURL,
                                   response |-> resp])
    /\ try' = 2
    /\ UNCHANGED <<pc, lib, retErr, remote, relativePath, attempt,
                   validationError1, urlOut>>
    /\ UNCHANGED otherVars

\* The first download of validate fails: it sleeps and downloads again.
URLDownloadRetry ==
    /\ mode = "LicenseURL" /\ pc = "download" /\ try = 1
    /\ \E resp \in Responses :
        /\ download(AttemptRawURL, resp).err # NoError
        /\ calls' = Append(calls, [op |-> "download", url |-> AttemptRawURL,
                                   response |-> resp])
    /\ try' = 2
    /\ UNCHANGED <<pc, lib, retErr, remote, relativePath, attempt,
                   validationError1, urlOut>>
    /\ UNCHANGED otherVars

\* URLDownloadDone with a slip: when both attempts fail only the error of
\* the second one is returned.
URLDownloadDoneLastErrorOnly ==
    /\ mode = "LicenseURL" /\ pc = "download"
    /\ \E resp \in Responses :
        LET d == download(AttemptRawURL, resp)
            verr == ValidateResult(d)
        IN  /\ try = 1 => d.err = NoError
            /\ calls' = Append(calls, [op |-> "download", url |-> AttemptRawURL,
                                       response |-> resp])
            /\ IF verr = NoError
               THEN /\ Return(AttemptURL, NoError, FALSE)
                    /\ UNCHANGED <<attempt, try, validationError1>>
               ELSE IF attempt = 1
               THEN IF relativePath # LICENSE
                    THEN /\ Return(NoURL, verr, FALSE)
                         /\ validationError1' = verr
                         /\ UNCHANGED <<attempt, try>>
                    ELSE IF RepoFileURL(remote, LICENSE)
                                = FileURL(remote, relativePath)
                    THEN /\ Return(NoURL, verr, FALSE)
                         /\ validationError1' = verr
                         /\ UNCHANGED <<attempt, try>>
                    ELSE /\ validationError1' = verr
                         /\ attempt' = 2
                         /\ try' = 1
                         /\ UNCHANGED <<pc, lib, retErr, urlOut>>
               ELSE /\ Return(NoURL, verr, FALSE)
                    /\ UNCHANGED <<attempt, try, validationError1>>
    /\ UNCHANGED <<remote, relativePath>>
    /\ UNCHANGED otherVars

\* URLDownloadDone with a slip: relativePath is not compared with "LICENSE"
\* before the second attempt.
URLDownloadDoneAnyPath ==
    /\ mode = "LicenseURL" /\ pc = "download"
    /\ \E resp \in Responses :
        LET d == download(AttemptRawURL, resp)
            verr == ValidateResult(d)
        IN  /\ try = 1 => d.err = NoError
            /\ calls' = Append(calls, [op |-> "download", url |-> AttemptRawURL,
                                       response |-> resp])
            /\ IF verr = NoError
               THEN /\ Return(AttemptURL, NoError, FALSE)
                    /\ UNCHANGED <<attempt, try, validationError1>>
               ELSE IF attempt = 1
               THEN IF RepoFileURL(remote, LICENSE)
                                = FileURL(remote, relativePath)
                    THEN /\ Return(NoURL, verr, FALSE)
                         /\ validationError1' = verr
                         /\ UNCHANGED <<attempt, try>>
                    ELSE /\ validationError1' = verr
                         /\ attempt' = 2
                         /\ try' = 1
                         /\ UNCHANGED <<pc, lib, retErr, urlOut>>
               ELSE /\ Return(NoURL,
                              [kind |-> "cannot infer remote URL",
                               path |-> lib.LicensePath,
                               attempt1 |-> validationError1,
                               attempt2 |-> verr], FALSE)
                    /\ UNCHANGED <<attempt, try, validationError1>>
    /\ UNCHANGED <<remote, relativePath>>
    /\ UNCHANGED otherVars

\* A download ends validate: the first one by succeeding, the second one
\* either way. LicenseURL goes on with the error validate returns.
URLDownloadDone ==
    /\ mode = "LicenseURL" /\ pc = "download"
    /\ \E resp \in Responses :
        LET d == download(AttemptRawURL, resp)
            verr == ValidateResult(d)
        IN  /\ try = 1 => d.err = NoError
            /\ calls' = Append(calls, [op |-> "download", url |-> AttemptRawURL,
                                       response |-> resp])
            /\ IF verr = NoError
               THEN /\ Return(AttemptURL, NoError, FALSE)
                    /\ UNCHANGED <<attempt, try, validationError1>>
               ELSE IF attempt = 1
               THEN IF relativePath # LICENSE
                    THEN /\ Return(NoURL, verr, FALSE)
                         /\ validationError1' = verr
                         /\ UNCHANGED <<attempt, try>>
                    ELSE IF RepoFileURL(remote, LICENSE)
                                = FileURL(remote, relativePath)
                    THEN /\ Return(NoURL, verr, FALSE)
                         /\ validationError1' = verr
                         /\ UNCHANGED <<attempt, try>>
                    ELSE /\ validationError1' = verr
                         /\ attempt' = 2
                         /\ try' = 1
                         /\ UNCHANGED <<pc, lib, retErr, urlOut>>
               ELSE /\ Return(NoURL,
                              [kind |-> "cannot infer remote URL",
                               path |-> lib.LicensePath,
                               attempt1 |-> validationError1,
                               attempt2 |-> verr], FALSE)
                    /\ UNCHANGED <<attempt, try, validationError1>>
    /\ UNCHANGED <<remote, relativePath>>
    /\ UNCHANGED otherVars

NextURL ==
    \/ URLCheckModule
    \/ URLModuleInfoFails
    \/ URLModuleInfo
    \/ URLReadFileFails
    \/ URLReadFile
    \/ URLDownloadRetry
    \/ URLDownloadDone

SpecURL == InitURL /\ [][NextURL]_vars

\* LicenseURL runs on one goroutine without waiting for any other: as long
\* as every call it makes returns (module lookup, file read, http.Get, the
\* one-second sleep), its next step is taken.
SpecURLFair == SpecURL /\ WF_vars(NextURL)

-----------------------------------------------------------------------------
(* Properties of Library.LicenseURL. *)

\* The receiver has no module, or a module without directory.
NoModuleDir == lib # NilLibrary /\ (lib.module.nil \/ lib.module.Dir = <<>>)

\* C10: for a Library without module, or with a module without directory,
\* LicenseURL ends at the checks of the module: it makes no lookup, reads no
\* file and downloads nothing, and it returns an error and the empty URL.
C10_FailsFastWithoutModuleDir ==
    (mode = "LicenseURL" /\ NoModuleDir) =>
        /\ calls = <<>>
        /\ pc \in {"call", "returned"}
        /\ pc = "returned" => (retErr # NoError /\ urlOut = NoURL)

C10_Witness ==
    /\ mode = "LicenseURL" /\ pc = "returned"
    /\ lib # NilLibrary
    /\ lib.module = newModule(ModX)
    /\ retErr.kind = "getting file URL in library"
    /\ retErr.cause.kind = "empty go module dir"

\* The downloads made so far, as positions of calls.
Downloads == {i \in DOMAIN calls : calls[i].op = "download"}

\* The download at position i of calls gave the bytes of the local file.
ServedLocal(i) ==
    /\ calls[i].op = "download"
    /\ download(calls[i].url, calls[i].response)
            = [content |-> "local", err |-> NoError]

\* The download at position i of calls failed: http.Get failed, the status
\* was not OK or the body could not be read.
FetchFailed(i) ==
    /\ calls[i].op = "download"
    /\ download(calls[i].url, calls[i].response).err # NoError

\* The URLs of the call, once the module's repository is known: the
\* module-relative candidate and the file at the repository root.
Candidate == FileURL(remote, relativePath)
CandidateRaw == RawURL(remote, relativePath)
RepoRoot == RepoFileURL(remote, LICENSE)
RepoRootRaw == RepoRawURL(remote, LICENSE)

\* Attempt 1 succeeded: a download of the candidate's raw URL gave the bytes
\* of the local file.
Attempt1Succeeded ==
    /\ mode = "LicenseURL" /\ remote # NoRemote
    /\ \E i \in Downloads : calls[i].url = CandidateRaw /\ ServedLocal(i)

\* C11: when a download of the candidate's raw URL gives the bytes of the
\* local file, LicenseURL has returned the module-relative browsable URL and
\* no error, that download was its last step, and nothing but the
\* candidate's raw URL was ever downloaded (so the repository-root URL was
\* not, where it is another URL).
C11_Attempt1SuccessReturnsCandidate ==
    Attempt1Succeeded =>
        /\ pc = "returned"
        /\ urlOut = Candidate
        /\ retErr = NoError
        /\ ServedLocal(Len(calls))
        /\ \A i \in Downloads : calls[i].url = CandidateRaw

\* Attempt 1 succeeded for a license at the root of a module that sits below
\* the root of its repository, where a second attempt would have had another
\* URL to try.
C11_Witness ==
    /\ Attempt1Succeeded
    /\ pc = "returned"
    /\ relativePath = LICENSE
    /\ RepoRoot # Candidate
    /\ urlOut = Candidate

\* Attempt 1 failed: validate returned an error for the candidate's raw URL.
Attempt1Failed == mode = "LicenseURL" /\ validationError1 # NoError

\* The conditions under which a failed attempt 1 is followed by attempt 2.
SecondAttemptApplies == relativePath = LICENSE /\ RepoRoot # Candidate

\* C12: when attempt 1 failed, relativePath is "LICENSE" and the
\* repository-root URL differs from the candidate, LicenseURL goes on to
\* attempt 2; once a download of the repository-root raw URL gives the bytes
\* of the local file it has returned the repository-root browsable URL and no
\* error, and it returns without error only after such a download.
C12_Attempt2SuccessReturnsRepoRoot ==
    (Attempt1Failed /\ SecondAttemptApplies) =>
        /\ attempt = 2
        /\ (\E i \in Downloads : calls[i].url = RepoRootRaw /\ ServedLocal(i))
            => (pc = "returned" /\ urlOut = RepoRoot /\ retErr = NoError)
        /\ (pc = "returned" /\ retErr = NoError)
            => /\ urlOut = RepoRoot
               /\ calls[Len(calls)].url = RepoRootRaw
               /\ ServedLocal(Len(calls))

\* Attempt 1 ended with a content mismatch and attempt 2 found the license
\* at the root of the repository.
C12_Witness ==
    /\ Attempt1Failed /\ SecondAttemptApplies
    /\ validationError1.kind = "content mismatch"
    /\ pc = "returned"
    /\ urlOut = RepoRoot
    /\ retErr = NoError

\* The error validate returns after the download at position i of calls,
\* made for the raw URL raw.
ValidationErrorAt(i, raw) ==
    LET d == download(calls[i].url, calls[i].response)
    IN  IF d.err # NoError THEN d.err
        ELSE IF d.content # "local"
        THEN [kind |-> "content mismatch", url |-> raw]
        ELSE NoError

\* The last download of the raw URL raw.
LastDownloadOf(raw) ==
    CHOOSE i \in Downloads :
        /\ calls[i].url = raw
        /\ \A j \in Downloads : calls[j].url = raw => j <= i

\* Both attempts were made and both failed validation.
BothAttemptsFailed ==
    /\ Attempt1Failed
    /\ attempt = 2
    /\ pc = "returned"
    /\ ~ServedLocal(Len(calls))

\* C13: when both attempts were made and both failed validation, LicenseURL
\* returns the empty URL and one error that holds the validation error of
\* attempt 1 and the validation error of attempt 2.
C13_BothFailuresCombined ==
    BothAttemptsFailed =>
        /\ urlOut = NoURL
        /\ retErr = [kind |-> "cannot infer remote URL",
                     path |-> lib.LicensePath,
                     attempt1 |-> ValidationErrorAt(LastDownloadOf(CandidateRaw),
                                                    CandidateRaw),
                     attempt2 |-> ValidationErrorAt(Len(calls), RepoRootRaw)]
        /\ retErr.attempt1 # NoError
        /\ retErr.attempt2 # NoError

\* Attempt 1 ended with a content mismatch and attempt 2 with two failed
\* downloads.
C13_Witness ==
    /\ BothAttemptsFailed
    /\ retErr.kind = "cannot infer remote URL"
    /\ retErr.attempt1.kind = "content mismatch"
    /\ retErr.attempt2.kind = "download"
    /\ retErr.attempt1.url # retErr.attempt2.url

\* Two downloads in a row of the same raw URL: the two downloads of one
\* call of validate.
Retried(i) ==
    /\ i \in Downloads
    /\ i + 1 \in Downloads
    /\ calls[i + 1].url = calls[i].url

\* What holds of the downloads in every state of a call of LicenseURL.
DownloadsBounded ==
    mode = "LicenseURL" =>
        /\ \A i \in Downloads :
            Cardinality({j \in Downloads : calls[j].url = calls[i].url}) <= 2
        /\ \A i \in Downloads : Retried(i) => FetchFailed(i)
        /\ \A i \in Downloads :
            (Retried(i) /\ ServedLocal(i + 1)) =>
                /\ pc = "returned"
                /\ retErr = NoError
                /\ urlOut = IF calls[i].url = CandidateRaw THEN Candidate
                            ELSE RepoRoot
        /\ \A i \in Downloads :
            (Retried(i) /\ FetchFailed(i + 1)) =>
                IF calls[i].url = CandidateRaw
                THEN validationError1
                        = download(calls[i + 1].url, calls[i + 1].response).err
                ELSE /\ pc = "returned"
                     /\ urlOut = NoURL
                     /\ retErr.attempt2
                        = download(calls[i + 1].url, calls[i + 1].response).err
        /\ Cardinality(Downloads) <= 4

\* C14: a raw URL is downloaded at most twice; it is downloaded a second
\* time only right after a download of it that failed (never after one
\* that gave content, matching or not); a failed download followed by one
\* that gives the local bytes makes the attempt succeed; two failed
\* downloads make the second failure the attempt's validation error; one
\* call makes at most four downloads and it returns.
C14_RetryOnceAndTerminate ==
    /\ []DownloadsBounded
    /\ <>(pc = "returned")

\* Four downloads in one call: attempt 1 failed twice, attempt 2 failed once
\* and then got the local bytes.
C14_Witness ==
    /\ mode = "LicenseURL" /\ pc = "returned"
    /\ Cardinality(Downloads) = 4
    /\ retErr = NoError
    /\ \E i \in Downloads : Retried(i) /\ ServedLocal(i + 1)
    /\ \E i \in Downloads : Retried(i) /\ FetchFailed(i + 1)

\* LicenseURL is called on a Library whose module has an empty version.
EmptyVersion ==
    /\ mode = "LicenseURL"
    /\ lib # NilLibrary
    /\ ~lib.module.nil
    /\ lib.module.Version = <<>>

\* The positions of a call of LicenseURL.
URLPositions == {"call", "moduleInfo", "readFile", "download", "returned"}

\* C15: for a module with an empty version the repository is looked up with
\* the empty version, the commit of the remote is "HEAD" from then on, so
\* every URL downloaded, returned or named in an error is computed against
\* "HEAD"; the call is at one of its ordinary positions and returns either
\* a URL or an error.
C15_EmptyVersionUsesHEAD ==
    EmptyVersion =>
        /\ \A i \in DOMAIN calls :
            calls[i].op = "ModuleInfo" => calls[i].version = <<>>
        /\ remote # NoRemote => remote.commit = HEAD
        /\ \A i \in Downloads : calls[i].url.commit = HEAD
        /\ urlOut # NoURL => urlOut.commit = HEAD
        /\ validationError1 # NoError => validationError1.url.commit = HEAD
        /\ (retErr # NoError /\ retErr.kind = "failed to validate")
            => retErr.url.commit = HEAD
        /\ pc \in URLPositions
        /\ pc = "returned" => ((urlOut = NoURL) <=> (retErr # NoError))

\* The module under development: its license was validated against the
\* default branch and the URL returned points at it.
C15_Witness ==
    /\ EmptyVersion
    /\ pc = "returned"
    /\ Downloads # {}
    /\ retErr = NoError
    /\ urlOut # NoURL
    /\ urlOut.commit = HEAD

\* C16: once attempt 1 has failed, LicenseURL goes on to download the
\* repository-root raw URL exactly when relativePath is "LICENSE" and the
\* repository-root URL differs from the candidate; otherwise the failed
\* download of attempt 1 is the last step of the call, nothing but the
\* candidate's raw URL was downloaded, and the call has returned the empty
\* URL with the validation error of attempt 1.
C16_SecondAttemptOnlyForRootLicense ==
    Attempt1Failed =>
        IF SecondAttemptApplies
        THEN /\ attempt = 2
             /\ pc \in {"download", "returned"}
             /\ pc = "returned" => calls[Len(calls)].url = RepoRootRaw
             /\ RepoRootRaw # CandidateRaw
        ELSE /\ attempt = 1
             /\ pc = "returned"
             /\ urlOut = NoURL
             /\ retErr = validationError1
             /\ \A i \in Downloads : calls[i].url = CandidateRaw
             /\ validationError1 = ValidationErrorAt(Len(calls), CandidateRaw)

\* Attempt 1 failed for a license below the root of its module: the call
\* ended there.
C16_Witness ==
    /\ Attempt1Failed
    /\ relativePath # LICENSE
    /\ RepoRoot # Candidate
    /\ pc = "returned"
    /\ retErr = validationError1

\* The repository is known and its host gives no raw URL for the candidate.
NoRawURL ==
    /\ mode = "LicenseURL"
    /\ remote # NoRemote
    /\ CandidateRaw = NoURL

\* The local license file was read, or could not be read.
FileRead ==
    \E i \in DOMAIN calls : calls[i].op = "ReadFile" /\ calls[i].ok

ReadFailed ==
    /\ mode = "LicenseURL"
    /\ \E i \in DOMAIN calls : calls[i].op = "ReadFile" /\ ~calls[i].ok

\* C17: when the host gives no raw URL for the candidate, LicenseURL
\* downloads nothing, and once the local file is read it has returned the
\* candidate browsable URL and no error.
C17_NoRawURLReturnsUnverified ==
    NoRawURL =>
        /\ Downloads = {}
        /\ FileRead =>
            /\ pc = "returned"
            /\ urlOut = Candidate
            /\ retErr = NoError

\* A versioned module on a host without raw URLs, validation switched on.
C17_Witness ==
    /\ NoRawURL
    /\ FileRead
    /\ ~testOnlySkipValidation
    /\ pc = "returned"
    /\ urlOut = Candidate
    /\ lib.module.Version # <<>>

\* C18: when the local license file cannot be read, LicenseURL has returned
\* the empty URL and an error naming the failed validation, and it has
\* downloaded nothing, whether or not the host gives raw URLs.
C18_ReadFailureIsFatal ==
    ReadFailed =>
        /\ pc = "returned"
        /\ urlOut = NoURL
        /\ retErr # NoError
        /\ retErr.kind = "failed to validate"
        /\ Downloads = {}

\* The file could not be read although the host would have given a raw URL.
C18_Witness ==
    /\ ReadFailed
    /\ CandidateRaw # NoURL
    /\ pc = "returned"
    /\ urlOut = NoURL

\* LicenseURL returned a URL and no error.
ReturnedURL ==
    mode = "LicenseURL" /\ pc = "returned" /\ retErr = NoError

\* C23: when LicenseURL returns a URL and no error, with validation switched
\* on and a host that gives raw URLs, the URL is the candidate or the
\* repository-root URL, and the last step of the call was a download of the
\* raw URL of the very URL returned that gave the bytes of the local file.
C23_ReturnedURLWasValidated ==
    (ReturnedURL /\ ~testOnlySkipValidation /\ remote.raw) =>
        /\ urlOut \in {Candidate, RepoRoot}
        /\ calls # <<>>
        /\ Len(calls) \in Downloads
        /\ calls[Len(calls)].url = IF urlOut = Candidate THEN CandidateRaw
                                   ELSE RepoRootRaw
        /\ ServedLocal(Len(calls))

\* The repository-root URL was returned after a download of another
\* content and a failed download.
C23_Witness ==
    /\ ReturnedURL /\ ~testOnlySkipValidation /\ remote.raw
    /\ urlOut = RepoRoot
    /\ urlOut # Candidate
    /\ \E i \in Downloads : FetchFailed(i)
    /\ \E i \in Downloads : ~FetchFailed(i) /\ ~ServedLocal(i)

\* A call of LicenseURL ended in an error.
ReturnedError ==
    mode = "LicenseURL" /\ pc = "returned" /\ retErr # NoError

\* C24: LicenseURL returns either a URL and a nil error, or the empty URL
\* and an error, never a URL next to an error and never neither; the URL is
\* empty for a nil library, a missing module or module directory, a failed
\* lookup, a failed read and a failed validation alike.
C24_URLOrError ==
    (mode = "LicenseURL" /\ pc = "returned") =>
        /\ (retErr = NoError) <=> (urlOut # NoURL)
        /\ retErr # NoError =>
            /\ urlOut = NoURL
            /\ retErr.kind \in {"library is nil", "getting file URL in library",
                                "failed to validate", "download",
                                "content mismatch", "cannot infer remote URL"}

\* The lookup of the module failed: an error and the empty URL.
C24_Witness ==
    /\ ReturnedError
    /\ retErr.kind = "getting file URL in library"
    /\ retErr.cause.kind = "ModuleInfo"
    /\ urlOut = NoURL

-----------------------------------------------------------------------------
(* csvImp: the loop that writes the CSV report. *)

\* Largest number of modules the loop ranges over.
MaxModules == 2

MIT == <<"M", "I", "T">>
BSD == <<"B", "S", "D">>

\* The zero value of configmodule.ModuleOverride and of its License.
ZeroLicense == [Path |-> <<>>, SpdxId |-> <<>>, Url |-> <<>>]

ZeroOverride ==
    [Name |-> <<>>, Version |-> <<>>, Skip |-> FALSE,
     License |-> ZeroLicense, SubModules |-> <<>>]

\* config.Module.Overrides: an override for another version, a skipped
\* module, a license without SPDX id, and a license given by URL with two
\* sub modules, the second without path.
Overrides == <<
    [ZeroOverride EXCEPT !.Name = <<"v", "m">>, !.Version = <<"v", "2">>],
    [ZeroOverride EXCEPT !.Name = <<"s", "k">>, !.Skip = TRUE],
    [ZeroOverride EXCEPT !.Name = <<"n", "s">>,
                         !.License = [ZeroLicense EXCEPT !.Path = LICENSE]],
    [ZeroOverride EXCEPT
        !.Name = <<"o", "v">>,
        !.License = [Path |-> LICENSE, SpdxId |-> MIT, Url |-> <<"u">>],
        !.SubModules = <<
            [Path |-> <<"s">>,
             License |-> [Path |-> LICENSE, SpdxId |-> BSD, Url |-> <<>>]],
            [Path |-> <<>>,
             License |-> [Path |-> LICENSE, SpdxId |-> MIT, Url |-> <<>>]]>>]
>>

\* The loop over config.Module.Overrides: the last override named like the
\* module, the zero value if there is none.
RECURSIVE OverrideFrom(_, _, _)
OverrideFrom(path, i, override) ==
    IF i > Len(Overrides) THEN override
    ELSE OverrideFrom(path, i + 1,
                      IF Overrides[i].Name = path THEN Overrides[i]
                      ELSE override)

\* The modules gocli.ListModulesInBinary may list (gocli.Module: the fields
\* the loop reads).
GoModuleCandidates ==
    {[Path |-> path, Version |-> <<"v", "1">>, Dir |-> <<"/">> \o path] :
        path \in {<<"v", "m">>, <<"s", "k">>, <<"n", "s">>, <<"o", "v">>,
                  <<"s", "c">>, <<"s", "d">>}}

\* What licenses.ScanDir may return: the licenses found and whether err is
\* non-nil.
ScanResults ==
    {[found |-> <<>>, err |-> TRUE],
     [found |-> <<>>, err |-> FALSE],
     [found |-> <<[SpdxId |-> MIT, Path |-> LICENSE]>>, err |-> FALSE],
     [found |-> <<[SpdxId |-> MIT, Path |-> LICENSE],
                  [SpdxId |-> BSD, Path |-> Join(<<"d">>, LICENSE)]>>,
      err |-> FALSE]}

\* repo.RemoteUrl: the URL of a path at a version, in the repo or, for a nil
\* repo, on the local disk.
RemoteUrl(hasRepo, path, version) ==
    [local |-> ~hasRepo, path |-> path, version |-> version]

\* The module the loop is at and its override.
goModule == goModules[modIndex]

override == OverrideFrom(goModule.Path, 1, ZeroOverride)

\* The licenseInfo built from a license of the config or of a scan.
OverrideInfo(license, subModulePath) ==
    [spdxId |-> license.SpdxId, licensePath |-> license.Path,
     url |-> license.Url, subModulePath |-> subModulePath]

ScannedInfo(license) ==
    [spdxId |-> license.SpdxId, licensePath |-> license.Path,
     url |-> <<>>, subModulePath |-> <<>>]

\* The closure writeLicenseInfo, for one outcome of repo.RemoteUrl and of
\* f.WriteString: the error it returns (ret), whether it calls report for
\* the missing repo, the value it leaves in the named result err of csvImp
\* (it assigns RemoteUrl's error to it, while WriteString's error goes to a
\* variable of its own), and the rows it writes.
writeLicenseInfo(info, remoteOk, writeOk) ==
    IF Len(info.spdxId) = 0
    THEN [ret |-> [kind |-> "info.spdxId required"], reportsRepo |-> FALSE,
          err |-> csvErr, rows |-> <<>>]
    ELSE IF Len(info.url) = 0 /\ Len(info.licensePath) = 0
    THEN [ret |-> [kind |-> "info.licensePath required"],
          reportsRepo |-> FALSE, err |-> csvErr, rows |-> <<>>]
    ELSE LET needsRemote == Len(info.url) = 0
             reportsRepo == needsRemote /\ ~repo
                                /\ ~hasReportedGetGithubRepoErr
             licensePath == IF info.subModulePath # <<>>
                            THEN Join(info.subModulePath, info.licensePath)
                            ELSE info.licensePath
             url == IF needsRemote
                    THEN RemoteUrl(repo, licensePath, goModule.Version)
                    ELSE [given |-> info.url]
             moduleString == IF info.subModulePath # <<>>
                             THEN Join(goModule.Path, info.subModulePath)
                             ELSE goModule.Path
             errAfter == IF needsRemote THEN NoError ELSE csvErr
         IN  IF needsRemote /\ ~remoteOk
             THEN [ret |-> [kind |-> "RemoteUrl"], reportsRepo |-> reportsRepo,
                   err |-> [kind |-> "RemoteUrl"], rows |-> <<>>]
             ELSE IF ~writeOk
             THEN [ret |-> [kind |-> "Failed to write string"],
                   reportsRepo |-> reportsRepo, err |-> errAfter,
                   rows |-> <<>>]
             ELSE [ret |-> NoError, reportsRepo |-> reportsRepo,
                   err |-> errAfter,
                   rows |-> <<[module |-> moduleString, url |-> url,
                               spdxId |-> info.spdxId]>>]

\* report with a slip: the error is logged and not counted.
reportWithoutCount(e) ==
    /\ errorCount' = errorCount
    /\ reported' = Append(reported, [module |-> goModule.Path, err |-> e])

\* The closure report: one more error, logged with the module.
report(e) ==
    /\ errorCount' = errorCount + 1
    /\ reported' = Append(reported, [module |-> goModule.Path, err |-> e])

\* What a call of writeLicenseInfo with the result res leaves behind, but
\* for the named result err.
AfterWrite(info, res) ==
    /\ IF res.reportsRepo
       THEN /\ report([kind |-> "GetGithubRepo"])
            /\ hasReportedGetGithubRepoErr' = TRUE
       ELSE UNCHANGED <<errorCount, reported, hasReportedGetGithubRepoErr>>
    /\ rows' = rows \o res.rows
    /\ licenseCount' = licenseCount + Len(res.rows)
    /\ written' = Append(written, [module |-> goModule.Path, info |-> info,
                                   ret |-> res.ret])

\* The loop goes on with the next module.
NextModule ==
    /\ modIndex' = modIndex + 1
    /\ pending' = <<>>
    /\ pc' = "loop"

\* The variables csvImp never touches.
nonCsvVars == <<mode, rootPkgs, imports, stack, seen, found, pkgsByLicense,
                errorOccurred, mapOrder, libraries, lib, nameOut,
                testOnlySkipValidation, remote, relativePath, attempt, try,
                validationError1, calls, urlOut>>

\* csvImp is called: the modules are those the binary lists, the main
\* module first.
InitCSV ==
    /\ mode = "csvImp"
    /\ pc = "start"
    /\ goModules \in DistinctSeqs(GoModuleCandidates, MaxModules)
    /\ modIndex = 0
    /\ repo = FALSE
    /\ pending = <<>>
    /\ hasReportedGetGithubRepoErr = FALSE
    /\ errorCount = 0
    /\ licenseCount = 0
    /\ csvErr = NoError
    /\ rows = <<>>
    /\ reported = <<>>
    /\ written = <<>>
    /\ retErr = NoError
    /\ rootPkgs = <<>>
    /\ imports = {}
    /\ stack = <<>>
    /\ seen = {}
    /\ found = [p \in PkgIds |-> NotAsked]
    /\ pkgsByLicense = [k \in LicensePaths |-> <<>>]
    /\ errorOccurred = FALSE
    /\ mapOrder = <<>>
    /\ libraries = <<>>
    /\ lib = [LicensePath |-> <<>>, Packages |-> <<>>, module |-> NilModule]
    /\ nameOut = <<>>
    /\ UrlIdle

\* csvImp returns e: the deferred close replaces a nil result by its own
\* error, and leaves any other result alone.
CsvReturn(e, closeErr) ==
    /\ pc' = "returned"
    /\ csvErr' = IF e = NoError THEN closeErr ELSE e
    /\ retErr' = IF e = NoError THEN closeErr ELSE e

\* What f.Close may return.
CloseErrors == {NoError, [kind |-> "close"]}

\* Loading the config, listing the modules or creating the file fails: the
\* error is returned before there is a file to close.
CsvSetupFails ==
    /\ mode = "csvImp" /\ pc = "start"
    /\ pc' = "returned"
    /\ csvErr' = [kind |-> "setup"]
    /\ retErr' = [kind |-> "setup"]
    /\ UNCHANGED <<goModules, modIndex, repo, pending,
                   hasReportedGetGithubRepoErr, errorCount, licenseCount,
                   rows, reported, written>>
    /\ UNCHANGED nonCsvVars

\* Writing the header line fails.
CsvHeaderFails ==
    /\ mode = "csvImp" /\ pc = "start"
    /\ \E closeErr \in CloseErrors :
        CsvReturn([kind |-> "write header"], closeErr)
    /\ UNCHANGED <<goModules, modIndex, repo, pending,
                   hasReportedGetGithubRepoErr, errorCount, licenseCount,
                   rows, reported, written>>
    /\ UNCHANGED nonCsvVars

\* The header line is written and the loop starts.
CsvHeaderOk ==
    /\ mode = "csvImp" /\ pc = "start"
    /\ pc' = "loop"
    /\ modIndex' = 1
    /\ UNCHANGED <<goModules, repo, pending, hasReportedGetGithubRepoErr,
                   errorCount, licenseCount, csvErr, rows, reported, written,
                   retErr>>
    /\ UNCHANGED nonCsvVars

\* The items the override branch goes through: the module's own license and
\* then the sub modules of the override.
OverrideItems ==
    <<[sub |-> FALSE, Path |-> <<>>, License |-> override.License]>>
        \o [i \in 1..Len(override.SubModules) |->
                [sub |-> TRUE, Path |-> override.SubModules[i].Path,
                 License |-> override.SubModules[i].License]]

\* The head of one iteration of the loop: the override's version and skip
\* flag are checked, the repo is looked up, and the module either goes to
\* the override branch or is scanned.
CsvModule ==
    /\ mode = "csvImp" /\ pc = "loop" /\ modIndex <= Len(goModules)
    /\ hasReportedGetGithubRepoErr' = FALSE
    /\ IF override.Version # <<>> /\ override.Version # goModule.Version
       THEN /\ report([kind |-> "override version mismatch"])
            /\ NextModule
            /\ UNCHANGED repo
       ELSE IF override.Skip
       THEN /\ NextModule
            /\ UNCHANGED <<repo, errorCount, reported>>
       ELSE /\ repo' \in BOOLEAN
            /\ IF Len(override.License.Path) > 0
               THEN IF Len(override.License.SpdxId) = 0
                    THEN /\ report([kind |-> "override.license.spdxId required"])
                         /\ NextModule
                    ELSE /\ pc' = "override"
                         /\ pending' = OverrideItems
                         /\ UNCHANGED <<modIndex, errorCount, reported>>
               ELSE \E scan \in ScanResults :
                    IF scan.err
                    THEN /\ report([kind |-> "ScanDir"])
                         /\ NextModule
                    ELSE IF Len(scan.found) = 0
                    THEN /\ report([kind |-> "licenses not found"])
                         /\ NextModule
                    ELSE /\ pc' = "scanned"
                         /\ pending' = scan.found
                         /\ UNCHANGED <<modIndex, errorCount, reported>>
    /\ UNCHANGED <<goModules, licenseCount, csvErr, rows, written, retErr>>
    /\ UNCHANGED nonCsvVars

\* One step of the override branch: a sub module with a missing field is
\* reported and passed over; otherwise the license info is written, and an
\* error of writeLicenseInfo is returned by csvImp.
CsvWriteOverride ==
    /\ mode = "csvImp" /\ pc = "override" /\ pending # <<>>
    /\ LET item == Head(pending)
           info == OverrideInfo(item.License, item.Path)
       IN  IF /\ item.sub
              /\ \/ Len(item.Path) = 0
                 \/ Len(item.License.Path) = 0
                 \/ Len(item.License.SpdxId) = 0
           THEN /\ report([kind |-> "override.subModule"])
                /\ IF Tail(pending) = <<>> THEN NextModule
                   ELSE /\ pending' = Tail(pending)
                        /\ UNCHANGED <<pc, modIndex>>
                /\ UNCHANGED <<hasReportedGetGithubRepoErr, licenseCount,
                               csvErr, rows, written, retErr>>
           ELSE \E remoteOk, writeOk \in BOOLEAN :
                LET res == writeLicenseInfo(info, remoteOk, writeOk)
                IN  /\ AfterWrite(info, res)
                    /\ IF res.ret # NoError
                       THEN /\ \E closeErr \in CloseErrors :
                                CsvReturn(res.ret, closeErr)
                            /\ UNCHANGED <<pending, modIndex>>
                       ELSE /\ csvErr' = res.err
                            /\ UNCHANGED retErr
                            /\ IF Tail(pending) = <<>> THEN NextModule
                               ELSE /\ pending' = Tail(pending)
                                    /\ UNCHANGED <<pc, modIndex>>
    /\ UNCHANGED <<goModules, repo>>
    /\ UNCHANGED nonCsvVars

\* One step of the loop over the licenses found by the scan: the license
\* info is written and the error writeLicenseInfo returns is not looked at
\* (the err tested after the call is ScanDir's, which is nil here).
CsvWriteScanned ==
    /\ mode = "csvImp" /\ pc = "scanned" /\ pending # <<>>
    /\ LET info == ScannedInfo(Head(pending))
       IN  \E remoteOk, writeOk \in BOOLEAN :
            LET res == writeLicenseInfo(info, remoteOk, writeOk)
            IN  /\ AfterWrite(info, res)
                /\ csvErr' = res.err
    /\ IF Tail(pending) = <<>> THEN NextModule
       ELSE /\ pending' = Tail(pending)
            /\ UNCHANGED <<pc, modIndex>>
    /\ UNCHANGED <<goModules, repo, retErr>>
    /\ UNCHANGED nonCsvVars

\* The loop is over: an error if errors were counted, nil otherwise; then
\* the deferred close.
CsvFinish ==
    /\ mode = "csvImp" /\ pc = "loop" /\ modIndex > Len(goModules)
    /\ \E closeErr \in CloseErrors :
        CsvReturn(IF errorCount > 0
                  THEN [kind |-> "Failed to scan licenses",
                        count |-> errorCount]
                  ELSE NoError, closeErr)
    /\ UNCHANGED <<goModules, modIndex, repo, pending,
                   hasReportedGetGithubRepoErr, errorCount, licenseCount,
                   rows, reported, written>>
    /\ UNCHANGED nonCsvVars

NextCSV ==
    \/ CsvSetupFails
    \/ CsvHeaderFails
    \/ CsvHeaderOk
    \/ CsvModule
    \/ CsvWriteOverride
    \/ CsvWriteScanned
    \/ CsvFinish

SpecCSV == InitCSV /\ [][NextCSV]_vars

-----------------------------------------------------------------------------
(* Properties of csvImp. *)

\* The loop stands at the head of an iteration.
AtModule == mode = "csvImp" /\ pc = "loop" /\ modIndex <= Len(goModules)

\* The loop ran to its end and csvImp returned.
AllProcessed ==
    mode = "csvImp" /\ pc = "returned" /\ modIndex > Len(goModules)

\* The module at the head of the iteration fails by its override: another
\* version, or a license without SPDX id.
FailsByOverride ==
    \/ override.Version # <<>> /\ override.Version # goModule.Version
    \/ /\ ~override.Skip
       /\ Len(override.License.Path) > 0
       /\ Len(override.License.SpdxId) = 0

\* The step reports a failed scan or a scan that found nothing.
ReportsScan ==
    /\ Len(reported') = Len(reported) + 1
    /\ reported'[Len(reported')].err.kind \in {"ScanDir", "licenses not found"}

\* The calls of writeLicenseInfo that returned nil.
WrittenOk == SelectSeq(written, LAMBDA w : w.ret = NoError)

\* The rows in the file are those of the calls of writeLicenseInfo that
\* returned nil, in their order, and licenseCount counts them.
RowsAsWritten ==
    /\ Len(rows) = Len(WrittenOk)
    /\ licenseCount = Len(rows)
    /\ \A k \in DOMAIN rows :
        /\ rows[k].spdxId = WrittenOk[k].info.spdxId
        /\ rows[k].module =
            IF WrittenOk[k].info.subModulePath = <<>>
            THEN WrittenOk[k].module
            ELSE Join(WrittenOk[k].module, WrittenOk[k].info.subModulePath)

\* A step that ends the iteration of a module by a per-module failure:
\* the failure is counted, the rows are left as they are, and the loop
\* goes on with the next module.
FailureIsolated ==
    (AtModule /\ (FailsByOverride \/ ReportsScan)) =>
        /\ errorCount' = errorCount + 1
        /\ Len(reported') = Len(reported) + 1
        /\ rows' = rows
        /\ pc' = "loop"
        /\ modIndex' = modIndex + 1

\* C21 as stated: once every module is processed, csvImp returns an error
\* if and only if errors were counted.
C21_ErrorIffFailures ==
    AllProcessed => ((retErr # NoError) <=> (errorCount > 0))

\* C21 amended: a per-module failure is counted and the loop goes on with
\* the next module; the rows in the file are always those written by the
\* calls of writeLicenseInfo that succeeded, whatever failed before or
\* after; once every module is processed, csvImp returns the error that
\* counts the failures if errors were counted, and otherwise what closing
\* the file returned (nil or the close error).
C21_FailuresCountedAndIsolated ==
    /\ [][FailureIsolated]_vars
    /\ [](mode = "csvImp" => (RowsAsWritten /\ errorCount = Len(reported)))
    /\ [](AllProcessed =>
            IF errorCount > 0
            THEN retErr = [kind |-> "Failed to scan licenses",
                           count |-> errorCount]
            ELSE retErr \in CloseErrors)

\* The first module failed by its override's version, the second one was
\* scanned and its rows written; csvImp returned the error of the count.
C21_Witness ==
    /\ AllProcessed
    /\ Len(goModules) = 2
    /\ goModules[1].Path = <<"v", "m">>
    /\ errorCount = 1
    /\ Len(rows) = 2
    /\ retErr.kind = "Failed to scan licenses"

\* The calls of writeLicenseInfo made for a license found by a scan that
\* returned an error: no row was written for that license.
ScannedWithoutRow ==
    {i \in DOMAIN written :
        /\ written[i].ret # NoError
        /\ Len(OverrideFrom(written[i].module, 1, ZeroOverride).License.Path)
                = 0}

\* C22 as stated: when writing the row of a scanned license failed, csvImp
\* does not end with a nil error.
C22_NoErrorDropped ==
    (mode = "csvImp" /\ pc = "returned" /\ ScannedWithoutRow # {}) =>
        retErr # NoError

====
